---- MODULE Spec2Model ----
(***************************************************************************)
(* Child-side lifecycle of the Brixel artifact SDK (useBrixelArtifact):    *)
(* the React state of the hook, the completion guard, the messages the     *)
(* child posts to its parent window and the handling of the messages it    *)
(* receives; and the HTTP clients executeTask, uploadFile and              *)
(* getFileContent, as the hook binds them (Spec), call by call, from the   *)
(* call to the returned result (SpecHttp), and as calls under way while    *)
(* the hook handles messages, completes and re-renders (SpecFlight).       *)
(*                                                                         *)
(* React state (useState) is written by a setter and read through the      *)
(* closure of the render that created a callback.  The variables inputs,   *)
(* context, status, renderMode and runId hold the state after every        *)
(* queued update has been applied, in order; renderedRunId is the runId    *)
(* the callbacks of the latest render closed over.  Render is the step at  *)
(* which React re-runs the hook and the two meet.                          *)
(***************************************************************************)
EXTENDS Integers, Sequences, FiniteSets, TLC

VARIABLES
    inputs,         \* useState<TInputs | null>(null)
    context,        \* useState<BrixelContext | null>(null)
    status,         \* useState<TaskStatus>("initializing")
    renderMode,     \* useState<RenderMode | null>(null)
    runId,          \* useState<string | null>(null)
    hasCompleted,   \* useRef(false): the completion guard
    renderedRunId,  \* runId as captured by the callbacks of the latest render
    sent,           \* every message handed to parentWindow.postMessage, in order
    last,           \* history: the latest operation, its argument and its effects
    called,         \* history: "yes" when complete() or cancel() was called since
                    \* the latest INIT, "early" when only before the first INIT
    terminals,      \* history: COMPLETE/CANCEL messages posted since the latest INIT
    call,           \* the HTTP client call under way: its operation and params
    pc,             \* where that call stands: idle, called, fetching, reading, done
    requests,       \* every request handed to fetch by that call, in order
    response,       \* the Response fetch resolved with
    caught,         \* the value the catch block of that call received
    result,         \* what the call returned
    flights         \* the calls made through the hook's clients that run side
                    \* by side: for each, what the six variables above hold
                    \* for a single call

hookVars == <<inputs, context, status, renderMode, runId, hasCompleted,
              renderedRunId, sent, last, called, terminals>>

httpVars == <<call, pc, requests, response, caught, result, flights>>

vars == <<inputs, context, status, renderMode, runId, hasCompleted,
          renderedRunId, sent, last, called, terminals,
          call, pc, requests, response, caught, result, flights>>

(***************************************************************************)
(* Bounds of the model.                                                    *)
(***************************************************************************)
MaxSent == 3

(***************************************************************************)
(* Values.  A JavaScript string is a tuple of chunks, so that startsWith   *)
(* is computed; null is Null for strings and NullObj for objects.          *)
(***************************************************************************)
Null == "null"
NullObj == [null |-> TRUE]

\* A version string left behind by a release.
SDK_VERSION_Stale == "0.9.0"

SDK_VERSION == "1.0.0"

PREFIX == "BRIXEL_"

RunIds == {"r1", "r2"}
Outputs == {"x", "y"}
Reasons == {"user cancelled"}
\* the height is passed through unread: one value stands for number and "auto"
Heights == {"auto"}
LogCalls == {[level |-> "info", message |-> "m", data |-> "d"]}
Themes == {"dark"}
Locales == {"fr"}

BrixelContext(rid) ==
    [runId |-> rid,
     organizationId |-> IF rid = "r1" THEN "org1" ELSE "org2",
     apiToken |-> IF rid = "r1" THEN "tok1" ELSE "tok2",
     conversationId |-> "conv",
     apiBaseUrl |-> "https://api",
     theme |-> IF rid = "r1" THEN "light" ELSE "dark",
     locale |-> IF rid = "r1" THEN "en" ELSE "fr"]

InitPayloads ==
    {[runId |-> "r1", inputs |-> [a |-> 1, b |-> 1],
      context |-> BrixelContext("r1"), renderMode |-> "interaction"],
     [runId |-> "r2", inputs |-> [a |-> 2],
      context |-> BrixelContext("r2"), renderMode |-> "display"]}

PartialInputs == {[b |-> 2]}

Str(chunks) == [jsType |-> "string", str |-> chunks]

\* The other JavaScript values: an object is a record of its properties
\* beside jsType, an array and a Uint8Array hold a sequence.
Undefined == [jsType |-> "undefined"]
JsNull == [jsType |-> "null"]
Bool(b) == [jsType |-> "boolean", bool |-> b]
Num(n) == [jsType |-> "number", value |-> n]
NaN == [jsType |-> "number", nan |-> TRUE]
Arr(items) == [jsType |-> "array", items |-> items]
Uint8Array(bytes) == [jsType |-> "Uint8Array", bytes |-> bytes]
ErrorValue(message) == [jsType |-> "Error", message |-> Str(<<message>>)]

\* no call under way, nothing received, nothing returned
NoCall == [op |-> "none"]
NoResponse == [status |-> 0]
NotThrown == [none |-> TRUE]
Pending == [pending |-> TRUE]

\* the calls that may be under way at once, and one that has not been made
Slots == {"a", "b"}
Idle == [call |-> NoCall, pc |-> "idle", requests |-> <<>>, response |-> NoResponse,
         caught |-> NotThrown, result |-> Pending]

Message(name, payload) ==
    [jsType |-> "object", type |-> Str(<<PREFIX, name>>), payload |-> payload]

\* The runId of these payloads is never read by the listener; "r1" matches
\* the current run, differs from it, or precedes any run, as the state has it.
HostMessages ==
    {Message("INIT", p) : p \in InitPayloads}
    \cup {Message("UPDATE_INPUTS", [runId |-> "r1", inputs |-> i]) : i \in PartialInputs}
    \cup {Message("DESTROY", [runId |-> "r1"])}
    \cup {Message("UPDATE_THEME", [runId |-> "r1", theme |-> t]) : t \in Themes}
    \cup {Message("UPDATE_LOCALE", [runId |-> "r1", locale |-> l]) : l \in Locales}

\* Traffic of the shared channel that is not a host-to-child message,
\* the child's own messages looping back in standalone mode included.
OtherMessages ==
    {[jsType |-> "null"],
     [jsType |-> "string"],
     [jsType |-> "object", type |-> [jsType |-> "undefined"]],
     [jsType |-> "object", type |-> Str(<<"webpackOk">>)],
     [jsType |-> "object", type |-> [jsType |-> "number", value |-> 42]]}
    \cup {[jsType |-> "object", type |-> Str(<<PREFIX, n>>)] : n \in {"READY"}}

Messages == HostMessages \cup OtherMessages

(***************************************************************************)
(* JavaScript helpers.                                                     *)
(***************************************************************************)
\* !s for a string or null
FalsyString(s) == s = Null \/ s = ""

\* !message.type
FalsyType(t) ==
    \/ t.jsType = "undefined"
    \/ t.jsType = "string" /\ t.str = <<>>
    \/ t.jsType = "number" /\ t.value = 0

\* message.type.startsWith("BRIXEL_"), defined on strings only
StartsWith(t, prefix) == Len(t.str) > 0 /\ t.str[1] = prefix

\* { ...prev, ...updated }
Spread(prev, updated) ==
    [k \in (DOMAIN prev) \cup (DOMAIN updated) |->
        IF k \in DOMAIN updated THEN updated[k] ELSE prev[k]]

\* what an operation did beside its writes: the callback of the hook's
\* options it invoked, with which arguments, and whether it threw
Invoked(op, arg, callback, args, fault) ==
    [op |-> op, arg |-> arg, callback |-> callback, args |-> args, fault |-> fault]

Effect(op, arg, callback, fault) == Invoked(op, arg, callback, <<>>, fault)

ReadyMessage == [type |-> "BRIXEL_READY", payload |-> [version |-> SDK_VERSION]]

IsTerminal(m) == m.type \in {"BRIXEL_COMPLETE", "BRIXEL_CANCEL"}

(***************************************************************************)
(* The state after construction: the first render and its effect, which    *)
(* registers the listener and posts READY.                                 *)
(***************************************************************************)
Init ==
    /\ inputs = NullObj
    /\ context = NullObj
    /\ status = "initializing"
    /\ renderMode = Null
    /\ runId = Null
    /\ hasCompleted = FALSE
    /\ renderedRunId = Null
    /\ sent = <<ReadyMessage>>
    /\ last = Effect("mount", Null, "none", FALSE)
    /\ called = "no"
    /\ terminals = 0
    /\ call = NoCall
    /\ pc = "idle"
    /\ requests = <<>>
    /\ response = NoResponse
    /\ caught = NotThrown
    /\ result = Pending
    /\ flights = [slot \in Slots |-> Idle]

(***************************************************************************)
(* handleMessage(event): the listener of the window's message events.      *)
(***************************************************************************)
\* HandleInit without the reset of the completion guard.
HandleInitKeepsGuard(p) ==
    /\ runId' = p.runId
    /\ inputs' = p.inputs
    /\ context' = p.context
    /\ renderMode' = p.renderMode
    /\ status' = "ready"
    /\ UNCHANGED hasCompleted
    /\ called' = IF called = "early" THEN "early" ELSE "no"
    /\ terminals' = 0
    /\ UNCHANGED <<renderedRunId, sent>>

\* HandleInit merging the payload's inputs into the earlier ones.
HandleInitMergesInputs(p) ==
    /\ runId' = p.runId
    /\ inputs' = IF inputs # NullObj THEN Spread(inputs, p.inputs) ELSE p.inputs
    /\ context' = p.context
    /\ renderMode' = p.renderMode
    /\ status' = "ready"
    /\ hasCompleted' = FALSE
    /\ called' = IF called = "early" THEN "early" ELSE "no"
    /\ terminals' = 0
    /\ UNCHANGED <<renderedRunId, sent>>

\* HandleInit that leaves the status as it was.
HandleInitKeepsStatus(p) ==
    /\ runId' = p.runId
    /\ inputs' = p.inputs
    /\ context' = p.context
    /\ renderMode' = p.renderMode
    /\ UNCHANGED status
    /\ hasCompleted' = FALSE
    /\ called' = IF called = "early" THEN "early" ELSE "no"
    /\ terminals' = 0
    /\ UNCHANGED <<renderedRunId, sent>>

HandleInit(p) ==
    /\ runId' = p.runId
    /\ inputs' = p.inputs
    /\ context' = p.context
    /\ renderMode' = p.renderMode
    /\ status' = "ready"
    /\ hasCompleted' = FALSE
    /\ called' = IF called = "early" THEN "early" ELSE "no"
    /\ terminals' = 0
    /\ UNCHANGED <<renderedRunId, sent>>

\* UPDATE_INPUTS handled as a replacement of the inputs.
HandleUpdateInputsReplaces(p) ==
    /\ inputs' = p.inputs
    /\ UNCHANGED <<context, status, renderMode, runId, hasCompleted,
                   renderedRunId, sent, called, terminals>>

HandleUpdateInputs(p) ==
    /\ inputs' = IF inputs # NullObj THEN Spread(inputs, p.inputs) ELSE p.inputs
    /\ UNCHANGED <<context, status, renderMode, runId, hasCompleted,
                   renderedRunId, sent, called, terminals>>

HandleDestroy(p) ==
    UNCHANGED <<inputs, context, status, renderMode, runId, hasCompleted,
                renderedRunId, sent, called, terminals>>

\* UPDATE_THEME handled by a context rebuilt from the payload.
HandleUpdateThemeRebuilds(p) ==
    /\ context' = [theme |-> p.theme]
    /\ UNCHANGED <<inputs, status, renderMode, runId, hasCompleted,
                   renderedRunId, sent, called, terminals>>

\* UPDATE_THEME handled only when its payload names the current run.
HandleUpdateThemeOfRun(p) ==
    /\ context' = IF context # NullObj /\ p.runId = runId
                     THEN [context EXCEPT !.theme = p.theme]
                     ELSE context
    /\ UNCHANGED <<inputs, status, renderMode, runId, hasCompleted,
                   renderedRunId, sent, called, terminals>>

HandleUpdateTheme(p) ==
    /\ context' = IF context # NullObj
                     THEN [context EXCEPT !.theme = p.theme]
                     ELSE context
    /\ UNCHANGED <<inputs, status, renderMode, runId, hasCompleted,
                   renderedRunId, sent, called, terminals>>

HandleUpdateLocale(p) ==
    /\ context' = IF context # NullObj
                     THEN [context EXCEPT !.locale = p.locale]
                     ELSE context
    /\ UNCHANGED <<inputs, status, renderMode, runId, hasCompleted,
                   renderedRunId, sent, called, terminals>>

NoChange ==
    UNCHANGED <<inputs, context, status, renderMode, runId, hasCompleted,
                renderedRunId, sent, called, terminals>>

HandleMessage(m) ==
    IF m.jsType = "null" \/ m.jsType # "object" \/ FalsyType(m.type)
    THEN \* return
         /\ NoChange
         /\ last' = Effect("message", m, "none", FALSE)
    ELSE IF m.type.jsType # "string"
    THEN \* message.type.startsWith is not a function: TypeError
         /\ NoChange
         /\ last' = Effect("message", m, "none", TRUE)
    ELSE IF ~StartsWith(m.type, PREFIX)
    THEN \* return
         /\ NoChange
         /\ last' = Effect("message", m, "none", FALSE)
    ELSE CASE m.type.str[2] = "INIT" ->
                /\ HandleInit(m.payload)
                /\ last' = Effect("message", m, "none", FALSE)
           [] m.type.str[2] = "UPDATE_INPUTS" ->
                /\ HandleUpdateInputs(m.payload)
                /\ last' = Invoked("message", m, "onInputsUpdate",
                                   <<m.payload.inputs>>, FALSE)
           [] m.type.str[2] = "DESTROY" ->
                /\ HandleDestroy(m.payload)
                /\ last' = Effect("message", m, "onDestroy", FALSE)
           [] m.type.str[2] = "UPDATE_THEME" ->
                /\ HandleUpdateTheme(m.payload)
                /\ last' = Effect("message", m, "none", FALSE)
           [] m.type.str[2] = "UPDATE_LOCALE" ->
                /\ HandleUpdateLocale(m.payload)
                /\ last' = Effect("message", m, "none", FALSE)
           [] OTHER ->
                \* no case of the switch matches
                /\ NoChange
                /\ last' = Effect("message", m, "none", FALSE)

Receive == \E m \in Messages : HandleMessage(m) /\ UNCHANGED httpVars

(***************************************************************************)
(* postToParent(message): parentWindow.current is set by the effect that   *)
(* ran at construction.                                                    *)
(***************************************************************************)
PostToParent(message) == sent' = Append(sent, message)

(***************************************************************************)
(* completeTask(type, payload), with runId read from the closure.          *)
(***************************************************************************)
\* completeTask that does not consult the completion guard.
CompleteTaskUnguarded(type, payload) ==
    IF renderedRunId = Null \/ renderedRunId = ""
    THEN UNCHANGED <<hasCompleted, status, sent, terminals>>
    ELSE /\ hasCompleted' = TRUE
         /\ status' = IF type = "BRIXEL_COMPLETE" THEN "completed" ELSE "cancelled"
         /\ sent' = Append(sent, [type |-> type,
                                  payload |-> Spread([runId |-> renderedRunId], payload)])
         /\ terminals' = terminals + 1

\* completeTask that never sets the completion guard.
CompleteTaskNoLatch(type, payload) ==
    IF hasCompleted
    THEN UNCHANGED <<hasCompleted, status, sent, terminals>>
    ELSE IF renderedRunId = Null \/ renderedRunId = ""
    THEN UNCHANGED <<hasCompleted, status, sent, terminals>>
    ELSE /\ UNCHANGED hasCompleted
         /\ status' = IF type = "BRIXEL_COMPLETE" THEN "completed" ELSE "cancelled"
         /\ sent' = Append(sent, [type |-> type,
                                  payload |-> Spread([runId |-> renderedRunId], payload)])
         /\ terminals' = terminals + 1

CompleteTask(type, payload) ==
    IF hasCompleted
    THEN UNCHANGED <<hasCompleted, status, sent, terminals>>
    ELSE IF FalsyString(renderedRunId)
    THEN UNCHANGED <<hasCompleted, status, sent, terminals>>
    ELSE /\ hasCompleted' = TRUE
         /\ status' = IF type = "BRIXEL_COMPLETE" THEN "completed" ELSE "cancelled"
         /\ PostToParent([type |-> type,
                          payload |-> Spread([runId |-> renderedRunId], payload)])
         /\ terminals' = terminals + 1


Complete(output) ==
    /\ Len(sent) < MaxSent
    /\ CompleteTask("BRIXEL_COMPLETE", [output |-> output])
    /\ called' = IF runId = Null THEN "early" ELSE "yes"
    /\ last' = Effect("complete", output, "none", FALSE)
    /\ UNCHANGED <<inputs, context, renderMode, runId, renderedRunId>>
    /\ UNCHANGED httpVars

Cancel(reason) ==
    /\ Len(sent) < MaxSent
    /\ CompleteTask("BRIXEL_CANCEL", [reason |-> reason])
    /\ called' = IF runId = Null THEN "early" ELSE "yes"
    /\ last' = Effect("cancel", reason, "none", FALSE)
    /\ UNCHANGED <<inputs, context, renderMode, runId, renderedRunId>>
    /\ UNCHANGED httpVars

(***************************************************************************)
(* setHeight(height) and log(level, message, data).                        *)
(***************************************************************************)
SetHeight(height) ==
    /\ Len(sent) < MaxSent
    /\ IF FalsyString(renderedRunId)
       THEN UNCHANGED sent
       ELSE PostToParent([type |-> "BRIXEL_RESIZE",
                          payload |-> [runId |-> renderedRunId, height |-> height]])
    /\ last' = Effect("setHeight", height, "none", FALSE)
    /\ UNCHANGED <<inputs, context, status, renderMode, runId, hasCompleted,
                   renderedRunId, called, terminals>>
    /\ UNCHANGED httpVars

Log(l) ==
    /\ Len(sent) < MaxSent
    /\ IF FalsyString(renderedRunId)
       THEN UNCHANGED sent
       ELSE PostToParent([type |-> "BRIXEL_LOG",
                          payload |-> [runId |-> renderedRunId, level |-> l.level,
                                       message |-> l.message, data |-> l.data]])
    /\ last' = Effect("log", l, "none", FALSE)
    /\ UNCHANGED <<inputs, context, status, renderMode, runId, hasCompleted,
                   renderedRunId, called, terminals>>
    /\ UNCHANGED httpVars

(***************************************************************************)
(* A render of the hook.  The callbacks are re-created over the current    *)
(* runId.  When one of the effect's dependencies (debugLog, postToParent,  *)
(* onInputsUpdate, onDestroy) has a new identity the effect is cleaned up  *)
(* and run again: the listener is re-registered and READY is posted.       *)
(***************************************************************************)
Render(depsChanged) ==
    /\ renderedRunId # runId \/ depsChanged
    /\ renderedRunId' = runId
    /\ IF depsChanged
       THEN Len(sent) < MaxSent /\ PostToParent(ReadyMessage)
       ELSE UNCHANGED sent
    /\ last' = Effect("render", depsChanged, "none", FALSE)
    /\ UNCHANGED <<inputs, context, status, renderMode, runId, hasCompleted,
                   called, terminals>>
    /\ UNCHANGED httpVars

(***************************************************************************)
(* JavaScript values in the HTTP clients.                                  *)
(***************************************************************************)
\* !v
Falsy(v) ==
    \/ v.jsType \in {"undefined", "null"}
    \/ v.jsType = "string" /\ v.str = <<>>
    \/ v.jsType = "number" /\ (IF "nan" \in DOMAIN v THEN TRUE ELSE v.value = 0)
    \/ v.jsType = "boolean" /\ ~v.bool

\* a || b
Or(a, b) == IF Falsy(a) THEN b ELSE a

\* a ?? b
Coalesce(a, b) == IF a.jsType \in {"undefined", "null"} THEN b ELSE a

\* a ?? b for a string of the call's params, absent or null being Null
CoalesceString(a, b) == IF a # Null THEN a ELSE b

\* typeof value === "object" && value !== null
IsRecord(value) == value.jsType \in {"object", "array", "Uint8Array", "Error"}

\* key in value, for the keys of a parsed body
HasKey(value, key) == value.jsType = "object" /\ key \in DOMAIN value

\* value?.key
Get(value, key) == IF HasKey(value, key) THEN value[key] ELSE Undefined

\* a field of the params object, Null when the caller left it out
Field(params, key) == IF key \in DOMAIN params THEN params[key] ELSE Null

\* the chunks that String.prototype.trim and /\s+/ take for white space
Whitespace == {" ", "  "}

RECURSIVE TrimStart(_)
TrimStart(chunks) ==
    IF chunks # <<>> /\ Head(chunks) \in Whitespace
    THEN TrimStart(Tail(chunks))
    ELSE chunks

RECURSIVE TrimEnd(_)
TrimEnd(chunks) ==
    IF chunks # <<>> /\ chunks[Len(chunks)] \in Whitespace
    THEN TrimEnd(SubSeq(chunks, 1, Len(chunks) - 1))
    ELSE chunks

\* s.trim()
Trim(s) == Str(TrimEnd(TrimStart(s.str)))

\* encodeURIComponent(s), on the identifiers of the model
EncodeURIComponent(s) ==
    CASE s = "org/1" -> "org%2F1"
      [] s = "file 1" -> "file%201"
      [] OTHER -> s

\* Number(s) of a header value: decimal digits, white space around them
\* dropped, anything else NaN
DigitValue(c) ==
    CASE c = "0" -> 0 [] c = "1" -> 1 [] c = "2" -> 2 [] c = "3" -> 3
      [] c = "4" -> 4 [] c = "5" -> 5 [] c = "6" -> 6 [] c = "7" -> 7
      [] c = "8" -> 8 [] c = "9" -> 9 [] OTHER -> -1

RECURSIVE DigitsValue(_)
DigitsValue(chunks) ==
    IF chunks = <<>> THEN 0
    ELSE 10 * DigitsValue(SubSeq(chunks, 1, Len(chunks) - 1))
         + DigitValue(chunks[Len(chunks)])

NumberOf(s) ==
    LET digits == Trim(s).str IN
    IF \A i \in DOMAIN digits : DigitValue(digits[i]) >= 0
    THEN Num(DigitsValue(digits))
    ELSE NaN

\* Number.isFinite(v)
IsFinite(v) == v.jsType = "number" /\ "nan" \notin DOMAIN v

(***************************************************************************)
(* http.ts.  window is the global of the page, NoWindow outside a browser. *)
(***************************************************************************)
LOCAL_API_BASE_URL == "http://localhost:8000"
PROD_API_BASE_URL == "https://platform.brixel.ai"

NoWindow == [none |-> TRUE]

IsBrowserLocalhost(window) ==
    IF window = NoWindow
    THEN FALSE
    ELSE window.hostname = "localhost" \/ window.hostname = "127.0.0.1"

ResolveApiBaseUrl(apiBaseUrl, window) ==
    IF ~FalsyString(apiBaseUrl)
    THEN apiBaseUrl
    ELSE IF IsBrowserLocalhost(window) THEN LOCAL_API_BASE_URL ELSE PROD_API_BASE_URL

\* A response text is empty, the serialization of a JSON value, or some
\* other text.
EmptyText == [text |-> "empty"]
JsonText(value) == [text |-> "json", value |-> value]
RawText(chunks) == [text |-> "raw", raw |-> Str(chunks)]

ParseJsonOrText(responseText) ==
    CASE responseText.text = "empty" -> JsNull
      [] responseText.text = "json" -> responseText.value
      [] OTHER -> [jsType |-> "object", raw |-> responseText.raw]

\* response.ok
Ok(resp) == resp.status \in 200..299

\* toHttpError that never reads the body's code.
ToHttpErrorSynthesized(resp, payload) ==
    [jsType |-> "object",
     code |-> Str(<<"HTTP_" \o ToString(resp.status)>>),
     message |-> Or(Get(payload, "message"),
                    Str(<<"Request failed with status " \o ToString(resp.status)>>)),
     details |-> Or(Get(payload, "details"), payload)]

ToHttpError(resp, payload) ==
    [jsType |-> "object",
     code |-> Or(Get(payload, "code"), Str(<<"HTTP_" \o ToString(resp.status)>>)),
     message |-> Or(Get(payload, "message"),
                    Str(<<"Request failed with status " \o ToString(resp.status)>>)),
     details |-> Or(Get(payload, "details"), payload)]

\* toNetworkError with the fallback message whatever was thrown.
ToNetworkErrorNoMessage(error) ==
    [jsType |-> "object",
     code |-> Str(<<"NETWORK_ERROR">>),
     message |-> Str(<<"Unknown error occurred">>),
     details |-> error]

ToNetworkError(error) ==
    [jsType |-> "object",
     code |-> Str(<<"NETWORK_ERROR">>),
     message |-> IF error.jsType = "Error"
                    THEN error.message
                    ELSE Str(<<"Unknown error occurred">>),
     details |-> error]

(***************************************************************************)
(* executeTask.ts: the decoding of binary payloads and the normal forms.   *)
(***************************************************************************)
IsBase64BytesPayload(value) ==
    /\ IsRecord(value)
    /\ Get(value, "type") = Str(<<"bytes">>)
    /\ Get(value, "encoding") = Str(<<"base64">>)
    /\ Get(value, "content").jsType = "string"

\* atob, group by group of four characters
Base64Groups == {"aGk=", "aGVs", "bG8="}

AtobGroup(g) ==
    CASE g = "aGk=" -> <<104, 105>>
      [] g = "aGVs" -> <<104, 101, 108>>
      [] g = "bG8=" -> <<108, 111>>

RECURSIVE Atob(_)
Atob(groups) ==
    IF groups = <<>> THEN <<>> ELSE AtobGroup(Head(groups)) \o Atob(Tail(groups))

NotWhitespace(c) == c \notin Whitespace

\* A decoder that skips what is not base64 instead of throwing, as
\* Buffer.from(input, "base64") does.
DecodeBase64ToUint8ArrayLenient(base64Value) ==
    LET normalizedBase64 == SelectSeq(base64Value.str, NotWhitespace)
        IsGroup(g) == g \in Base64Groups
    IN  [threw |-> FALSE, value |-> Uint8Array(Atob(SelectSeq(normalizedBase64, IsGroup)))]

\* the Uint8Array, or the throw of atob on a character outside the alphabet
DecodeBase64ToUint8Array(base64Value) ==
    LET normalizedBase64 == SelectSeq(base64Value.str, NotWhitespace) IN
    IF \A i \in DOMAIN normalizedBase64 : normalizedBase64[i] \in Base64Groups
    THEN [threw |-> FALSE, value |-> Uint8Array(Atob(normalizedBase64))]
    ELSE [threw |-> TRUE]

\* The keys that transformed[key] = ... gives the new object: every key of
\* Object.entries(value) but "__proto__", whose assignment goes to the setter
\* of Object.prototype.  The setter ignores a primitive, and the bodies of
\* the model carry nothing else under that key.
AssignedKeys(value) == DOMAIN value \ {"__proto__"}

RECURSIVE DecodeBase64BytesPayloads(_)
DecodeBase64BytesPayloads(value) ==
    IF IsBase64BytesPayload(value)
    THEN LET decoded == DecodeBase64ToUint8Array(value.content) IN
         IF decoded.threw THEN value ELSE decoded.value
    ELSE IF value.jsType = "array"
    THEN Arr([i \in DOMAIN value.items |-> DecodeBase64BytesPayloads(value.items[i])])
    ELSE IF ~IsRecord(value)
    THEN value
    ELSE [key \in AssignedKeys(value) |->
            IF key = "jsType" THEN "object" ELSE DecodeBase64BytesPayloads(value[key])]

IsActionExecutePayload(value) ==
    /\ IsRecord(value)
    /\ (HasKey(value, "result") \/ HasKey(value, "success") \/ HasKey(value, "error"))

ToActionExecutionError(payload) ==
    LET error == Get(payload, "error") IN
    [jsType |-> "object",
     code |-> Str(<<"TASK_EXECUTION_FAILED">>),
     message |-> IF error.jsType = "string" /\ ~Falsy(Trim(error))
                    THEN error
                    ELSE Str(<<"Task execution failed">>),
     details |-> payload]

ToExecuteTaskSuccess(data) ==
    [jsType |-> "object", success |-> Bool(TRUE), data |-> data]

ToExecuteTaskFailure(error) ==
    [jsType |-> "object", success |-> Bool(FALSE), data |-> error]

\* the envelope of uploadFile and getFileContent
Success(data) == [jsType |-> "object", success |-> Bool(TRUE), data |-> data]
Failure(error) == [jsType |-> "object", success |-> Bool(FALSE), error |-> error]

\* JSON.stringify throws on a value that refers to itself
Circular == [jsType |-> "object", self |-> "circular"]

JsonStringify(value) ==
    IF \E key \in DOMAIN value : value[key] = Circular
    THEN [threw |-> TRUE,
          thrown |-> ErrorValue("Converting circular structure to JSON")]
    ELSE [threw |-> FALSE, json |-> value]

(***************************************************************************)
(* executeTask(params), to its first await and from the response on.       *)
(***************************************************************************)
\* The preconditions tested taskId first.
ExecuteTaskValidateTaskFirst(params) ==
    IF FalsyString(Field(params, "taskId"))
    THEN ToExecuteTaskFailure(
             [jsType |-> "object",
              code |-> Str(<<"MISSING_TASK_ID">>),
              message |-> Str(<<"taskId is required to execute a task">>)])
    ELSE IF FalsyString(Field(params, "organizationId"))
    THEN ToExecuteTaskFailure(
             [jsType |-> "object",
              code |-> Str(<<"MISSING_ORGANIZATION_ID">>),
              message |-> Str(<<"organizationId is required to execute a task">>)])
    ELSE Pending

ExecuteTaskValidate(params) ==
    IF FalsyString(Field(params, "organizationId"))
    THEN ToExecuteTaskFailure(
             [jsType |-> "object",
              code |-> Str(<<"MISSING_ORGANIZATION_ID">>),
              message |-> Str(<<"organizationId is required to execute a task">>)])
    ELSE IF FalsyString(Field(params, "taskId"))
    THEN ToExecuteTaskFailure(
             [jsType |-> "object",
              code |-> Str(<<"MISSING_TASK_ID">>),
              message |-> Str(<<"taskId is required to execute a task">>)])
    ELSE Pending

\* the headers object, as the set of its entries
Header(name, value) == [name |-> name, value |-> value]

ExecuteTaskHeaders(params) ==
    {Header("Content-Type", "application/json")}
    \cup (IF FalsyString(Field(params, "apiToken")) THEN {}
          ELSE {Header("Authorization", "Bearer " \o params.apiToken)})
    \cup (IF FalsyString(Field(params, "conversationId")) THEN {}
          ELSE {Header("x-conversation-id", params.conversationId)})

ExecuteTaskRequest(baseUrl, params, body) ==
    [method |-> "POST",
     url |-> <<baseUrl, "/v1/organizations/", EncodeURIComponent(params.organizationId),
               "/tasks/", EncodeURIComponent(params.taskId), "/execute">>,
     headers |-> ExecuteTaskHeaders(params),
     body |-> body]

\* executeTask handing its request to fetch a second time.
ExecuteTaskBeginFetchesTwice(params, window) ==
    LET baseUrl == ResolveApiBaseUrl(Field(params, "apiBaseUrl"), window)
        invalid == ExecuteTaskValidate(params)
        body == JsonStringify([inputs |-> params.inputs])
    IN  IF invalid # Pending
        THEN [returned |-> invalid, fetched |-> <<>>]
        ELSE IF body.threw
        THEN [returned |-> ToExecuteTaskFailure(ToNetworkError(body.thrown)),
              fetched |-> <<>>, thrown |-> body.thrown]
        ELSE [returned |-> Pending,
              fetched |-> <<ExecuteTaskRequest(baseUrl, params, body.json),
                            ExecuteTaskRequest(baseUrl, params, body.json)>>]

\* what the call has done when it first awaits or returns: its result, if
\* it has one, and the requests it handed to fetch
ExecuteTaskBegin(params, window) ==
    LET baseUrl == ResolveApiBaseUrl(Field(params, "apiBaseUrl"), window)
        invalid == ExecuteTaskValidate(params)
        body == JsonStringify([inputs |-> params.inputs])
    IN  IF invalid # Pending
        THEN [returned |-> invalid, fetched |-> <<>>]
        ELSE IF body.threw
        THEN [returned |-> ToExecuteTaskFailure(ToNetworkError(body.thrown)),
              fetched |-> <<>>, thrown |-> body.thrown]
        ELSE [returned |-> Pending,
              fetched |-> <<ExecuteTaskRequest(baseUrl, params, body.json)>>]

\* The response handled without looking for a result key.
ExecuteTaskRespondWholeBody(resp, rawData) ==
    LET data == DecodeBase64BytesPayloads(rawData) IN
    IF ~Ok(resp)
    THEN ToExecuteTaskFailure(ToHttpError(resp, data))
    ELSE IF IsActionExecutePayload(data) /\ Get(data, "success") = Bool(FALSE)
    THEN ToExecuteTaskFailure(ToActionExecutionError(data))
    ELSE ToExecuteTaskSuccess(Coalesce(data, Undefined))

ExecuteTaskRespond(resp, rawData) ==
    LET data == DecodeBase64BytesPayloads(rawData) IN
    IF ~Ok(resp)
    THEN ToExecuteTaskFailure(ToHttpError(resp, data))
    ELSE IF IsActionExecutePayload(data) /\ Get(data, "success") = Bool(FALSE)
    THEN ToExecuteTaskFailure(ToActionExecutionError(data))
    ELSE IF IsActionExecutePayload(data) /\ HasKey(data, "result")
    THEN ToExecuteTaskSuccess(data.result)
    ELSE ToExecuteTaskSuccess(Coalesce(data, Undefined))

\* createExecuteTask spreading the caller's params over the bound fields.
CreateExecuteTaskCallerWins(contextAuth, params) ==
    Spread(params,
           [organizationId |->
                CoalesceString(Field(params, "organizationId"),
                               CoalesceString(contextAuth.organizationId, "")),
            apiToken |-> CoalesceString(Field(params, "apiToken"), contextAuth.apiToken),
            conversationId |-> CoalesceString(Field(params, "conversationId"),
                                              contextAuth.conversationId),
            apiBaseUrl |-> CoalesceString(Field(params, "apiBaseUrl"),
                                          contextAuth.apiBaseUrl)])

\* createExecuteTask(contextAuth)(params)
CreateExecuteTask(contextAuth, params) ==
    Spread(params,
           [organizationId |->
                CoalesceString(Field(params, "organizationId"),
                               CoalesceString(contextAuth.organizationId, "")),
            apiToken |-> contextAuth.apiToken,
            conversationId |-> contextAuth.conversationId,
            apiBaseUrl |-> contextAuth.apiBaseUrl])

\* isExecuteTaskError(value)
IsExecuteTaskError(value) ==
    IF ~IsRecord(value)
    THEN FALSE
    ELSE IF Get(value, "code").jsType = "string" /\ Get(value, "message").jsType = "string"
    THEN TRUE
    ELSE IF \/ Get(value, "success") # Bool(FALSE)
            \/ ~HasKey(value, "data")
            \/ ~IsRecord(value.data)
    THEN FALSE
    ELSE /\ Get(value.data, "code").jsType = "string"
         /\ Get(value.data, "message").jsType = "string"

(***************************************************************************)
(* uploadFile(params).                                                     *)
(***************************************************************************)
\* uploadFile without its precondition.
UploadFileValidateNothing(params) == Pending

UploadFileValidate(params) ==
    IF FalsyString(Field(params, "file"))
    THEN Failure([jsType |-> "object",
                  code |-> Str(<<"MISSING_FILE">>),
                  message |-> Str(<<"file is required for upload">>)])
    ELSE Pending

UploadFileHeaders(params) ==
    (IF FalsyString(Field(params, "apiToken")) THEN {}
     ELSE {Header("Authorization", "Bearer " \o params.apiToken)})
    \cup (IF FalsyString(Field(params, "organizationId")) THEN {}
          ELSE {Header("X-Organization-Id", params.organizationId)})

\* uploadFile taking the visibility from its params when they have one.
UploadFileRequestCallerVisibility(baseUrl, params) ==
    [method |-> "POST",
     url |-> <<baseUrl, "/v1/files/">>,
     headers |-> UploadFileHeaders(params),
     body |-> [formData |-> <<Header("file", params.file),
                              Header("visibility",
                                     CoalesceString(Field(params, "visibility"),
                                                    "user"))>>]]

UploadFileRequest(baseUrl, params) ==
    [method |-> "POST",
     url |-> <<baseUrl, "/v1/files/">>,
     headers |-> UploadFileHeaders(params),
     body |-> [formData |-> <<Header("file", params.file),
                              Header("visibility", "user")>>]]

UploadFileBegin(params, window) ==
    LET baseUrl == ResolveApiBaseUrl(Field(params, "apiBaseUrl"), window)
        invalid == UploadFileValidate(params)
    IN  IF invalid # Pending
        THEN [returned |-> invalid, fetched |-> <<>>]
        ELSE [returned |-> Pending,
              fetched |-> <<UploadFileRequest(baseUrl, params)>>]

\* uploadFile decoding the binary payloads of its response as executeTask does.
UploadFileRespondDecodes(resp, data) ==
    IF ~Ok(resp)
    THEN Failure(ToHttpError(resp, data))
    ELSE Success(Coalesce(DecodeBase64BytesPayloads(data), Undefined))

UploadFileRespond(resp, data) ==
    IF ~Ok(resp)
    THEN Failure(ToHttpError(resp, data))
    ELSE Success(Coalesce(data, Undefined))

\* createUploadFile that lets the caller's apiToken through.
CreateUploadFileCallerToken(contextAuth, params) ==
    Spread(params,
           [organizationId |-> CoalesceString(Field(params, "organizationId"),
                                              contextAuth.organizationId),
            apiToken |-> CoalesceString(Field(params, "apiToken"), contextAuth.apiToken),
            apiBaseUrl |-> contextAuth.apiBaseUrl])

\* createUploadFile(contextAuth)(params)
CreateUploadFile(contextAuth, params) ==
    Spread(params,
           [organizationId |-> CoalesceString(Field(params, "organizationId"),
                                              contextAuth.organizationId),
            apiToken |-> contextAuth.apiToken,
            apiBaseUrl |-> contextAuth.apiBaseUrl])

(***************************************************************************)
(* getFileContent(params).                                                 *)
(***************************************************************************)
GetFileContentValidate(params) ==
    IF FalsyString(Field(params, "brixelFileId"))
    THEN Failure([jsType |-> "object",
                  code |-> Str(<<"MISSING_FILE_ID">>),
                  message |-> Str(<<"brixelFileId is required">>)])
    ELSE Pending

GetFileContentHeaders(params) ==
    (IF FalsyString(Field(params, "apiToken")) THEN {}
     ELSE {Header("Authorization", "Bearer " \o params.apiToken)})
    \cup (IF FalsyString(Field(params, "organizationId")) THEN {}
          ELSE {Header("X-Organization-Id", params.organizationId)})
    \cup (IF FalsyString(Field(params, "conversationId")) THEN {}
          ELSE {Header("X-Conversation-Id", params.conversationId)})
    \cup (IF FalsyString(Field(params, "ifNoneMatch")) THEN {}
          ELSE {Header("If-None-Match", params.ifNoneMatch)})
    \cup (IF FalsyString(Field(params, "ifModifiedSince")) THEN {}
          ELSE {Header("If-Modified-Since", params.ifModifiedSince)})

GetFileContentRequest(baseUrl, params) ==
    [method |-> "GET",
     url |-> <<baseUrl, "/v1/files/", EncodeURIComponent(params.brixelFileId),
               "/content">>,
     headers |-> GetFileContentHeaders(params)]

GetFileContentBegin(params, window) ==
    LET baseUrl == ResolveApiBaseUrl(Field(params, "apiBaseUrl"), window)
        invalid == GetFileContentValidate(params)
    IN  IF invalid # Pending
        THEN [returned |-> invalid, fetched |-> <<>>]
        ELSE [returned |-> Pending,
              fetched |-> <<GetFileContentRequest(baseUrl, params)>>]

NotModified == [jsType |-> "object", success |-> Bool(TRUE), notModified |-> Bool(TRUE)]

\* the non-2xx response, once its text is read
GetFileContentRespondError(resp, data) == Failure(ToHttpError(resp, data))

\* the 2xx response, once its blob is read
GetFileContentRespond(resp, blob) ==
    LET contentLengthRaw == resp.headers.contentLength
        contentLength == IF Falsy(contentLengthRaw)
                            THEN Undefined
                            ELSE NumberOf(contentLengthRaw)
    IN  Success([jsType |-> "object",
                 blob |-> blob,
                 contentType |-> resp.headers.contentType,
                 contentLength |-> IF IsFinite(contentLength)
                                      THEN contentLength
                                      ELSE Undefined,
                 etag |-> resp.headers.etag,
                 lastModified |-> resp.headers.lastModified])

\* createGetFileContent(contextAuth)(params)
CreateGetFileContent(contextAuth, params) ==
    Spread(params,
           [organizationId |-> CoalesceString(Field(params, "organizationId"),
                                              contextAuth.organizationId),
            conversationId |-> CoalesceString(Field(params, "conversationId"),
                                              contextAuth.conversationId),
            apiToken |-> contextAuth.apiToken,
            apiBaseUrl |-> contextAuth.apiBaseUrl])

(***************************************************************************)
(* One call of a client, whichever it is: op names the function.           *)
(***************************************************************************)
Begin(op, params, window) ==
    CASE op = "executeTask" -> ExecuteTaskBegin(params, window)
      [] op = "uploadFile" -> UploadFileBegin(params, window)
      [] op = "getFileContent" -> GetFileContentBegin(params, window)

\* the catch block of the function
Caught(op, error) ==
    IF op = "executeTask"
    THEN ToExecuteTaskFailure(ToNetworkError(error))
    ELSE Failure(ToNetworkError(error))

\* getFileContent without its test of the status 304.
OnResponseNo304(op, resp) == Pending

\* what the function does with the response before it reads its body
OnResponse(op, resp) ==
    IF op = "getFileContent" /\ resp.status = 304 THEN NotModified ELSE Pending

\* what the function returns once the body is read
OnBody(op, resp) ==
    CASE op = "executeTask" -> ExecuteTaskRespond(resp, ParseJsonOrText(resp.text))
      [] op = "uploadFile" -> UploadFileRespond(resp, ParseJsonOrText(resp.text))
      [] op = "getFileContent" ->
            IF ~Ok(resp)
            THEN GetFileContentRespondError(resp, ParseJsonOrText(resp.text))
            ELSE GetFileContentRespond(resp, resp.blob)

\* The transport: fetch rejects, or resolves with a response whose body
\* then is read or fails to be read.
FetchRejected(thrown) == [kind |-> "fetchRejects", thrown |-> thrown]
BodyRejected(resp, thrown) == [kind |-> "bodyRejects", response |-> resp, thrown |-> thrown]
Responded(resp) == [kind |-> "responds", response |-> resp]

\* the value the call's promise resolves with
Returned(op, params, window, transport) ==
    LET begun == Begin(op, params, window) IN
    IF begun.returned # Pending THEN begun.returned
    ELSE IF transport.kind = "fetchRejects" THEN Caught(op, transport.thrown)
    ELSE IF OnResponse(op, transport.response) # Pending
    THEN OnResponse(op, transport.response)
    ELSE IF transport.kind = "bodyRejects" THEN Caught(op, transport.thrown)
    ELSE OnBody(op, transport.response)

(***************************************************************************)
(* What the transport may answer.                                          *)
(***************************************************************************)
\* a TypeError of fetch, and a thrown value that is not an Error
Thrown == {ErrorValue("Failed to fetch"), Str(<<"boom">>)}

BytesNode(content) ==
    [jsType |-> "object", type |-> Str(<<"bytes">>),
     encoding |-> Str(<<"base64">>), content |-> Str(content)]

ExecuteBodies ==
    {[jsType |-> "object", success |-> Bool(FALSE), error |-> Str(<<"bad input">>)],
     [jsType |-> "object", success |-> Bool(FALSE), error |-> Str(<<" ", "  ">>)],
     [jsType |-> "object", success |-> Bool(FALSE), error |-> Num(42)],
     [jsType |-> "object", success |-> Bool(FALSE)],
     [jsType |-> "object", success |-> Bool(FALSE), error |-> Str(<<" ", "bad input">>),
      result |-> Str(<<"r">>)],
     [jsType |-> "object", type |-> Str(<<"bytes">>), encoding |-> Str(<<"base64">>),
      content |-> Str(<<"aGk=">>), success |-> Bool(FALSE)],
     [jsType |-> "object", result |-> Str(<<"r">>), extra |-> Num(1)],
     [jsType |-> "object", result |-> JsNull, success |-> Bool(TRUE)],
     [jsType |-> "object", result |-> BytesNode(<<"aGVs", " ", "bG8=">>)],
     [jsType |-> "object", result |-> BytesNode(<<"!!!!">>)],
     [jsType |-> "object",
      result |-> [jsType |-> "object",
                  first |-> BytesNode(<<"aGk=">>),
                  second |-> BytesNode(<<"aGVs", "!!!!">>),
                  rest |-> Arr(<<BytesNode(<<"!!!!">>), BytesNode(<<"bG8=">>)>>)]],
     [jsType |-> "object", success |-> Bool(TRUE)],
     [jsType |-> "object", error |-> Str(<<"warning">>)],
     [jsType |-> "object", output |-> Str(<<"o">>)],
     [jsType |-> "object", code |-> Str(<<"E_CUSTOM">>), message |-> Str(<<"custom">>),
      details |-> Str(<<"d">>)],
     [jsType |-> "object", code |-> Str(<<>>), message |-> Str(<<"custom">>),
      details |-> Bool(FALSE)],
     [jsType |-> "object", code |-> Num(404), message |-> Str(<<"Not found">>)],
     Arr(<<Num(1), BytesNode(<<"aGk=">>)>>),
     [jsType |-> "object",
      output |-> [jsType |-> "object",
                  list |-> Arr(<<Num(0), JsNull, Bool(FALSE),
                                 [jsType |-> "object", type |-> Str(<<"bytes">>),
                                  content |-> Str(<<"aGk=">>)]>>),
                  file |-> [jsType |-> "object",
                            data |-> BytesNode(<<"aGVs", "bG8=">>),
                            name |-> Str(<<"hello.txt">>)]]],
     [jsType |-> "object",
      result |-> [jsType |-> "object", text |-> Str(<<>>),
                  rows |-> Arr(<<Arr(<<>>), [jsType |-> "object", n |-> Num(0)]>>)]],
     [key \in {"jsType", "__proto__", "total"} |->
        CASE key = "jsType" -> "object"
          [] key = "__proto__" -> Num(1)
          [] key = "total" -> Num(2)],
     Str(<<"ok">>),
     JsNull}

ExecuteTexts ==
    {EmptyText, RawText(<<"<html>">>)} \cup {JsonText(body) : body \in ExecuteBodies}

FileTexts ==
    {EmptyText,
     RawText(<<"<html>">>),
     JsonText([jsType |-> "object", id |-> Str(<<"file 1">>)]),
     JsonText(BytesNode(<<"aGk=">>)),
     JsonText([jsType |-> "object", file |-> BytesNode(<<"aGk=">>), size |-> Num(2)]),
     JsonText(JsNull),
     JsonText([jsType |-> "object", code |-> Str(<<"E_CUSTOM">>)]),
     JsonText([jsType |-> "object", code |-> Num(0), message |-> Str(<<>>),
               details |-> Str(<<"d">>)])}

NoHeaders ==
    [contentType |-> JsNull, contentLength |-> JsNull,
     etag |-> JsNull, lastModified |-> JsNull]

FileHeaders ==
    {NoHeaders,
     [contentType |-> Str(<<"text/plain">>), contentLength |-> Str(<<"1", "2">>),
      etag |-> Str(<<"etag1">>), lastModified |-> Str(<<"yesterday">>)],
     [contentType |-> Str(<<"text/plain">>), contentLength |-> Str(<<"many">>),
      etag |-> JsNull, lastModified |-> JsNull]}

Response(statusCode, text, headers) ==
    [status |-> statusCode, text |-> text, headers |-> headers, blob |-> "blob1"]

ResponsesFor(op) ==
    CASE op = "executeTask" ->
            {Response(s, t, NoHeaders) : s \in {200, 404}, t \in ExecuteTexts}
      [] op = "uploadFile" ->
            {Response(s, t, NoHeaders) : s \in {201, 500}, t \in FileTexts}
      [] op = "getFileContent" ->
            {Response(200, EmptyText, h) : h \in FileHeaders}
            \cup {Response(s, t, NoHeaders) : s \in {304, 404}, t \in FileTexts}

Responses ==
    ResponsesFor("executeTask") \cup ResponsesFor("uploadFile")
    \cup ResponsesFor("getFileContent")

(***************************************************************************)
(* The clients the hook returns, bound by useMemo to the context of the    *)
(* latest render.  Every INIT of the model carries BrixelContext(runId),   *)
(* and theme and locale are not among the bound fields, so the render that *)
(* captured renderedRunId captured the fields below.  A call is taken      *)
(* from its start to the resolution of its promise in one step: it reads   *)
(* the bound fields once, at its start, and writes no state of the hook.   *)
(***************************************************************************)
ContextAuth(rendered) ==
    IF rendered = Null
    THEN [organizationId |-> Null, apiToken |-> Null,
          conversationId |-> Null, apiBaseUrl |-> Null]
    ELSE [organizationId |-> BrixelContext(rendered).organizationId,
          apiToken |-> BrixelContext(rendered).apiToken,
          conversationId |-> BrixelContext(rendered).conversationId,
          apiBaseUrl |-> BrixelContext(rendered).apiBaseUrl]

HookWindow == [hostname |-> "app.brixel.ai"]

HookTransports ==
    {FetchRejected(ErrorValue("Failed to fetch")),
     Responded(Response(200, JsonText([jsType |-> "object", result |-> Str(<<"r">>)]),
                        NoHeaders))}

\* the transports tried with each client: both with executeTask, a failing
\* one with uploadFile, a responding one with getFileContent
HookTransportsFor(op) ==
    CASE op = "executeTask" -> HookTransports
      [] op = "uploadFile" -> {t \in HookTransports : t.kind = "fetchRejects"}
      [] op = "getFileContent" -> {t \in HookTransports : t.kind = "responds"}

HookExecuteTaskParams == {[taskId |-> "t1", inputs |-> [jsType |-> "object", q |-> Num(1)]]}
HookUploadFileParams == {[file |-> "file1"]}
HookGetFileContentParams == {[brixelFileId |-> "file 1"]}

HookParams(op) ==
    CASE op = "executeTask" -> HookExecuteTaskParams
      [] op = "uploadFile" -> HookUploadFileParams
      [] op = "getFileContent" -> HookGetFileContentParams

\* the params the bound client passes on to the function
Bind(op, contextAuth, params) ==
    CASE op = "executeTask" -> CreateExecuteTask(contextAuth, params)
      [] op = "uploadFile" -> CreateUploadFile(contextAuth, params)
      [] op = "getFileContent" -> CreateGetFileContent(contextAuth, params)

\* Every call that can be made through the hook, by client, by the run
\* identity of the render that bound the client, by params and transport:
\* the params passed on and what the call returns.
ClientCalls ==
    [op \in {"executeTask", "uploadFile", "getFileContent"} |->
        [rendered \in RunIds \cup {Null} |->
            [params \in HookParams(op) |->
                [transport \in HookTransportsFor(op) |->
                    LET bound == Bind(op, ContextAuth(rendered), params) IN
                    [params |-> bound,
                     returned |-> Returned(op, bound, HookWindow, transport)]]]]]

ClientCall(op, params, transport) == ClientCalls[op][renderedRunId][params][transport]

\* A bound executeTask that reports its failures through the status.
BoundExecuteTaskSetsStatus(params, transport) ==
    LET done == ClientCall("executeTask", params, transport)
    IN  /\ last' = Effect("executeTask", done, "none", FALSE)
        /\ status' = IF done.returned.success = Bool(FALSE) THEN "error" ELSE status
        /\ UNCHANGED <<inputs, context, renderMode, runId, hasCompleted,
                       renderedRunId, sent, called, terminals>>
        /\ UNCHANGED httpVars

BoundExecuteTask(params, transport) ==
    LET done == ClientCall("executeTask", params, transport)
    IN  /\ last' = Effect("executeTask", done, "none", FALSE)
        /\ UNCHANGED <<inputs, context, status, renderMode, runId, hasCompleted,
                       renderedRunId, sent, called, terminals>>
        /\ UNCHANGED httpVars

\* A bound uploadFile that drops the context when the upload fails.
BoundUploadFileDropsContext(params, transport) ==
    LET done == ClientCall("uploadFile", params, transport)
    IN  /\ last' = Effect("uploadFile", done, "none", FALSE)
        /\ context' = IF done.returned.success = Bool(FALSE) THEN NullObj ELSE context
        /\ UNCHANGED <<inputs, status, renderMode, runId, hasCompleted,
                       renderedRunId, sent, called, terminals>>
        /\ UNCHANGED httpVars

BoundUploadFile(params, transport) ==
    LET done == ClientCall("uploadFile", params, transport)
    IN  /\ last' = Effect("uploadFile", done, "none", FALSE)
        /\ UNCHANGED <<inputs, context, status, renderMode, runId, hasCompleted,
                       renderedRunId, sent, called, terminals>>
        /\ UNCHANGED httpVars

BoundGetFileContent(params, transport) ==
    LET done == ClientCall("getFileContent", params, transport)
    IN  /\ last' = Effect("getFileContent", done, "none", FALSE)
        /\ UNCHANGED <<inputs, context, status, renderMode, runId, hasCompleted,
                       renderedRunId, sent, called, terminals>>
        /\ UNCHANGED httpVars

Next ==
    \/ Receive
    \/ \E output \in Outputs : Complete(output)
    \/ \E reason \in Reasons : Cancel(reason)
    \/ \E height \in Heights : SetHeight(height)
    \/ \E l \in LogCalls : Log(l)
    \/ \E depsChanged \in BOOLEAN : Render(depsChanged)
    \/ \E params \in HookExecuteTaskParams, transport \in HookTransportsFor("executeTask") :
          BoundExecuteTask(params, transport)
    \/ \E params \in HookUploadFileParams, transport \in HookTransportsFor("uploadFile") :
          BoundUploadFile(params, transport)
    \/ \E params \in HookGetFileContentParams,
            transport \in HookTransportsFor("getFileContent") :
          BoundGetFileContent(params, transport)

Spec == Init /\ [][Next]_vars

(***************************************************************************)
(* One call of executeTask, uploadFile or getFileContent, step by step:    *)
(* the function runs to its first await, fetch settles, the body is read.  *)
(***************************************************************************)
Windows == {[hostname |-> "localhost"], [hostname |-> "app.brixel.ai"]}

ExecuteTaskParams ==
    [organizationId : {Null, "", "org/1"},
     taskId : {Null, "", "t1"},
     inputs : {[jsType |-> "object", q |-> Num(1)], Circular},
     conversationId : {Null, "conv"},
     apiToken : {Null, "tok1"},
     apiBaseUrl : {Null, "https://api"}]

\* visibility is no parameter of uploadFile: a caller may pass it all the same
UploadFileParams ==
    [file : {Null, "file1"},
     organizationId : {Null, "org/1"},
     apiToken : {Null, "tok1"},
     apiBaseUrl : {Null, "https://api"},
     visibility : {Null, "public"}]

GetFileContentParams ==
    [brixelFileId : {Null, "", "file 1"},
     organizationId : {Null, "org/1"},
     conversationId : {Null, "conv"},
     apiToken : {Null, "tok1"},
     apiBaseUrl : {"https://api"},
     ifNoneMatch : {Null, "etag1"},
     ifModifiedSince : {Null}]

Calls ==
    {[op |-> "executeTask", params |-> p, window |-> w] :
        p \in ExecuteTaskParams, w \in Windows}
    \cup {[op |-> "uploadFile", params |-> p, window |-> w] :
            p \in UploadFileParams, w \in Windows}
    \cup {[op |-> "getFileContent", params |-> p, window |-> w] :
            p \in GetFileContentParams, w \in Windows}

\* What a caller may pass to the clients the hook returns, the fields their
\* types leave out included.
CallerParams(op) ==
    CASE op = "executeTask" ->
            [taskId : {"t1"},
             inputs : {[jsType |-> "object", q |-> Num(1)]},
             organizationId : {Null, "", "org/1"},
             apiToken : {Null, "evil"},
             conversationId : {Null, "conv2"},
             apiBaseUrl : {Null, "https://evil"}]
      [] op = "uploadFile" ->
            [file : {"file1"},
             organizationId : {Null, "org/1"},
             apiToken : {Null, "evil"},
             apiBaseUrl : {Null, "https://evil"},
             visibility : {Null, "public"}]
      [] op = "getFileContent" ->
            [brixelFileId : {"file 1"},
             organizationId : {Null, "org/1"},
             conversationId : {Null, "conv2"},
             apiToken : {Null, "evil"},
             apiBaseUrl : {Null, "https://evil"},
             ifNoneMatch : {Null},
             ifModifiedSince : {Null}]

\* the calls of the clients bound to the context of a run, or to no context:
\* the function is called with the params the bound client passes on
BoundCalls ==
    UNION {{[op |-> op, params |-> Bind(op, ContextAuth(session), caller),
             window |-> w, caller |-> caller, session |-> session] :
               caller \in CallerParams(op), session \in RunIds \cup {Null},
               w \in Windows} :
           op \in {"executeTask", "uploadFile", "getFileContent"}}

InitHttp ==
    /\ inputs = NullObj
    /\ context = NullObj
    /\ status = "initializing"
    /\ renderMode = Null
    /\ runId = Null
    /\ hasCompleted = FALSE
    /\ renderedRunId = Null
    /\ sent = <<>>
    /\ last = Effect("call", Null, "none", FALSE)
    /\ called = "no"
    /\ terminals = 0
    /\ call \in Calls \cup BoundCalls
    /\ pc = "called"
    /\ requests = <<>>
    /\ response = NoResponse
    /\ caught = NotThrown
    /\ result = Pending
    /\ flights = [slot \in Slots |-> Idle]

Started(begun) ==
    /\ requests' = requests \o begun.fetched
    /\ result' = begun.returned
    /\ pc' = IF begun.returned # Pending THEN "done" ELSE "fetching"
    /\ caught' = IF "thrown" \in DOMAIN begun THEN begun.thrown ELSE caught
    /\ UNCHANGED <<call, response, flights>>
    /\ UNCHANGED hookVars

ExecuteTask ==
    /\ pc = "called"
    /\ call.op = "executeTask"
    /\ Started(ExecuteTaskBegin(call.params, call.window))

UploadFile ==
    /\ pc = "called"
    /\ call.op = "uploadFile"
    /\ Started(UploadFileBegin(call.params, call.window))

GetFileContent ==
    /\ pc = "called"
    /\ call.op = "getFileContent"
    /\ Started(GetFileContentBegin(call.params, call.window))

FetchRejects(thrown) ==
    /\ pc = "fetching"
    /\ caught' = thrown
    /\ result' = Caught(call.op, thrown)
    /\ pc' = "done"
    /\ UNCHANGED <<call, requests, response, flights>>
    /\ UNCHANGED hookVars

FetchResolves(resp) ==
    /\ pc = "fetching"
    /\ resp \in ResponsesFor(call.op)
    /\ response' = resp
    /\ result' = OnResponse(call.op, resp)
    /\ pc' = IF OnResponse(call.op, resp) # Pending THEN "done" ELSE "reading"
    /\ UNCHANGED <<call, requests, caught, flights>>
    /\ UNCHANGED hookVars

BodyRejects(thrown) ==
    /\ pc = "reading"
    /\ caught' = thrown
    /\ result' = Caught(call.op, thrown)
    /\ pc' = "done"
    /\ UNCHANGED <<call, requests, response, flights>>
    /\ UNCHANGED hookVars

BodyResolves ==
    /\ pc = "reading"
    /\ result' = OnBody(call.op, response)
    /\ pc' = "done"
    /\ UNCHANGED <<call, requests, response, caught, flights>>
    /\ UNCHANGED hookVars

NextHttp ==
    \/ ExecuteTask
    \/ UploadFile
    \/ GetFileContent
    \/ \E thrown \in Thrown : FetchRejects(thrown)
    \/ \E resp \in Responses : FetchResolves(resp)
    \/ \E thrown \in Thrown : BodyRejects(thrown)
    \/ BodyResolves

SpecHttp == InitHttp /\ [][NextHttp]_vars

\* fetch settles and a body that is read ends: the transport responds or fails
FairSpecHttp == SpecHttp /\ WF_vars(NextHttp)

(***************************************************************************)
(* The hook with calls of its clients under way.  A call through a bound   *)
(* client reads the bound fields when it is made; from then on it holds    *)
(* only its own params, request and response, while the listener and the   *)
(* callbacks of the hook run between its steps.                            *)
(***************************************************************************)
\* what the host sends while calls are under way
FlightMessages ==
    {Message("INIT", p) : p \in InitPayloads} \cup {Message("DESTROY", [runId |-> "r1"])}

\* the responses of the calls under way; what a call makes of a network
\* failure is followed in SpecHttp
FlightResponses(op) ==
    CASE op = "executeTask" ->
            {Response(200, JsonText([jsType |-> "object", result |-> Str(<<"r">>)]),
                      NoHeaders),
             Response(404, EmptyText, NoHeaders)}
      [] op = "uploadFile" ->
            {Response(201, JsonText([jsType |-> "object", id |-> Str(<<"file 1">>)]),
                      NoHeaders)}
      [] op = "getFileContent" -> {Response(304, EmptyText, NoHeaders)}
      [] OTHER -> {}

\* executeTask(params), uploadFile(params) or getFileContent(params) of
\* the hook's result: the call runs to its first await or to its return
FlightCall(slot, op, caller) ==
    /\ flights[slot].pc = "idle"
    /\ LET params == Bind(op, ContextAuth(renderedRunId), caller)
           begun == Begin(op, params, HookWindow)
       IN  flights' = [flights EXCEPT ![slot] =
               [call |-> [op |-> op, params |-> params, window |-> HookWindow],
                pc |-> IF begun.returned # Pending THEN "done" ELSE "fetching",
                requests |-> begun.fetched,
                response |-> NoResponse,
                caught |-> IF "thrown" \in DOMAIN begun THEN begun.thrown ELSE NotThrown,
                result |-> begun.returned]]
    /\ UNCHANGED hookVars
    /\ UNCHANGED <<call, pc, requests, response, caught, result>>

FlightFetchResolves(slot, resp) ==
    LET flight == flights[slot] IN
    /\ flight.pc = "fetching"
    /\ resp \in FlightResponses(flight.call.op)
    /\ flights' = [flights EXCEPT ![slot] =
            [flight EXCEPT !.response = resp,
                           !.result = OnResponse(flight.call.op, resp),
                           !.pc = IF OnResponse(flight.call.op, resp) # Pending
                                  THEN "done" ELSE "reading"]]
    /\ UNCHANGED hookVars
    /\ UNCHANGED <<call, pc, requests, response, caught, result>>

\* The body read handing over the response of the call in the other slot.
FlightBodyResolvesShared(slot) ==
    LET flight == flights[slot]
        other == flights[CHOOSE t \in Slots : t # slot]
    IN  /\ flight.pc = "reading"
        /\ flights' = [flights EXCEPT ![slot] =
                [flight EXCEPT !.result =
                                  OnBody(flight.call.op,
                                         IF other.call.op = flight.call.op
                                            /\ other.response # NoResponse
                                         THEN other.response
                                         ELSE flight.response),
                               !.pc = "done"]]
        /\ UNCHANGED hookVars
        /\ UNCHANGED <<call, pc, requests, response, caught, result>>

FlightBodyResolves(slot) ==
    LET flight == flights[slot] IN
    /\ flight.pc = "reading"
    /\ flights' = [flights EXCEPT ![slot] =
            [flight EXCEPT !.result = OnBody(flight.call.op, flight.response),
                           !.pc = "done"]]
    /\ UNCHANGED hookVars
    /\ UNCHANGED <<call, pc, requests, response, caught, result>>

\* fetch resolves, or the read of the body does
FlightSettles(slot) ==
    \/ \E resp \in FlightResponses(flights[slot].call.op) : FlightFetchResolves(slot, resp)
    \/ FlightBodyResolves(slot)

NextFlight ==
    \/ \E m \in FlightMessages : HandleMessage(m) /\ UNCHANGED httpVars
    \/ \E output \in {"x"} : Complete(output)
    \/ \E reason \in Reasons : Cancel(reason)
    \/ Render(FALSE)
    \/ \E op \in {"executeTask"} : \E caller \in HookParams(op) :
          FlightCall("a", op, caller)
    \/ \E op \in {"executeTask", "uploadFile", "getFileContent"} :
          \E caller \in HookParams(op) : FlightCall("b", op, caller)
    \/ \E slot \in Slots : FlightSettles(slot)

SpecFlight == Init /\ [][NextFlight]_vars


(***************************************************************************)
(* Properties.                                                             *)
(***************************************************************************)
HostToChildTypes == {"INIT", "UPDATE_INPUTS", "DESTROY", "UPDATE_THEME", "UPDATE_LOCALE"}

\* e records the receipt of the host-to-child message of this name
MessageIs(e, name) ==
    /\ e.op = "message"
    /\ e.arg.jsType = "object"
    /\ e.arg.type.jsType = "string"
    /\ e.arg.type.str = <<PREFIX, name>>

IsHostToChild(m) ==
    /\ m.jsType = "object"
    /\ m.type.jsType = "string"
    /\ Len(m.type.str) = 2
    /\ m.type.str[1] = PREFIX
    /\ m.type.str[2] \in HostToChildTypes

\* this step posts exactly one message, of this type
Posts(type) ==
    /\ Len(sent') = Len(sent) + 1
    /\ SubSeq(sent', 1, Len(sent)) = sent
    /\ sent'[Len(sent')].type = type

LastSent == sent[Len(sent)]

EverTerminal == \E i \in DOMAIN sent : IsTerminal(sent[i])

\* C1: between two consecutive INIT messages, and after the last one, at
\* most one terminal signal (COMPLETE or CANCEL) is posted, however
\* complete() and cancel() are called and interleaved with the other
\* messages.
C1_AtMostOneTerminal == terminals <= 1

\* a cancel() made after the run's COMPLETE was posted
C1_Witness ==
    /\ terminals = 1
    /\ last.op = "cancel"
    /\ LastSent.type = "BRIXEL_COMPLETE"

\* C2: after INIT, the first complete(x) posts one COMPLETE carrying x and
\* sets status completed, the first cancel(r) posts one CANCEL carrying r and
\* sets status cancelled, and every later complete() or cancel() before the
\* next INIT posts nothing and leaves status alone.
C2_FirstCallWins ==
    [][/\ (runId # Null /\ called # "yes" /\ last'.op = "complete") =>
            /\ Posts("BRIXEL_COMPLETE")
            /\ sent'[Len(sent')].payload.output = last'.arg
            /\ status' = "completed"
       /\ (runId # Null /\ called # "yes" /\ last'.op = "cancel") =>
            /\ Posts("BRIXEL_CANCEL")
            /\ sent'[Len(sent')].payload.reason = last'.arg
            /\ status' = "cancelled"
       /\ (runId # Null /\ called = "yes" /\ last'.op \in {"complete", "cancel"}) =>
            /\ sent' = sent
            /\ status' = status]_vars

\* C3: complete() or cancel() called before any INIT posts nothing, leaves
\* status initializing and the completion guard unset and raises nothing;
\* and after such calls the first complete() after a later INIT is delivered.
C3_EarlyCallsHarmless ==
    [][/\ (runId = Null /\ last'.op \in {"complete", "cancel"}) =>
            /\ sent' = sent
            /\ status' = "initializing"
            /\ hasCompleted' = FALSE
            /\ last'.fault = FALSE
       /\ (runId # Null /\ called = "early" /\ last'.op = "complete") =>
            /\ Posts("BRIXEL_COMPLETE")
            /\ sent'[Len(sent')].payload.output = last'.arg]_vars

\* C4: an INIT received in status completed or cancelled resets the
\* completion guard and sets status ready, and the next complete() or
\* cancel() posts a COMPLETE or CANCEL again.
C4_InitRearms ==
    [][/\ (status \in {"completed", "cancelled"} /\ MessageIs(last', "INIT")) =>
            /\ hasCompleted' = FALSE
            /\ status' = "ready"
       /\ (EverTerminal /\ called # "yes" /\ last'.op = "complete") =>
            /\ Posts("BRIXEL_COMPLETE")
            /\ sent'[Len(sent')].payload.output = last'.arg
       /\ (EverTerminal /\ called # "yes" /\ last'.op = "cancel") =>
            /\ Posts("BRIXEL_CANCEL")
            /\ sent'[Len(sent')].payload.reason = last'.arg]_vars

\* a COMPLETE posted after an earlier run's terminal signal
C4_Witness ==
    /\ Len(sent) = 3
    /\ IsTerminal(sent[2])
    /\ sent[3].type = "BRIXEL_COMPLETE"
    /\ last.op = "complete"
    /\ status = "completed"

\* C5: as long as no INIT has been received, whatever UPDATE_INPUTS messages
\* arrive, status is initializing and inputs are null.
C5_NothingBeforeInit ==
    runId = Null => status = "initializing" /\ inputs = NullObj

\* C6: status changes only to ready on INIT, from ready to completed on
\* complete() and from ready to cancelled on cancel(); nothing else changes
\* it, and it never returns to initializing.
C6_StatusEdges ==
    [][status' # status =>
          \/ MessageIs(last', "INIT") /\ status' = "ready"
          \/ status = "ready" /\ last'.op = "complete" /\ status' = "completed"
          \/ status = "ready" /\ last'.op = "cancel" /\ status' = "cancelled"]_vars

\* a cancel() attempted in status completed
C6_Witness ==
    /\ status = "completed"
    /\ last.op = "cancel"
    /\ hasCompleted

\* C7: a received message that is not one of the five host-to-child messages
\* changes no state, posts nothing, invokes no callback and raises nothing.
C7_ForeignIgnored ==
    [][(last'.op = "message" /\ ~IsHostToChild(last'.arg)) =>
          /\ UNCHANGED <<status, runId, inputs, context, renderMode,
                         hasCompleted, sent>>
          /\ last'.callback = "none"
          /\ last'.fault = FALSE]_vars

\* C8: every RESIZE, LOG, COMPLETE and CANCEL posted carries a run identity;
\* setHeight() and log() before any INIT post nothing, change nothing and
\* raise nothing, and after INIT each posts exactly one RESIZE with the
\* given height, or one LOG with the given level, message and data.
C8_AddressedSignals ==
    [][/\ \A i \in DOMAIN sent' :
            sent'[i].type # "BRIXEL_READY" => sent'[i].payload.runId \in RunIds
       /\ (runId = Null /\ last'.op \in {"setHeight", "log"}) =>
            /\ UNCHANGED <<status, runId, inputs, context, renderMode,
                           hasCompleted, sent>>
            /\ last'.fault = FALSE
       /\ (runId # Null /\ last'.op = "setHeight") =>
            /\ Posts("BRIXEL_RESIZE")
            /\ sent'[Len(sent')].payload.height = last'.arg
       /\ (runId # Null /\ last'.op = "log") =>
            /\ Posts("BRIXEL_LOG")
            /\ sent'[Len(sent')].payload.level = last'.arg.level
            /\ sent'[Len(sent')].payload.message = last'.arg.message
            /\ sent'[Len(sent')].payload.data = last'.arg.data]_vars

\* C9: on construction READY with version "1.0.0" has been posted and status
\* is initializing with run identity, inputs, context and render mode null;
\* READY is the first message ever posted.
C9_ReadyFirst ==
    /\ sent[1] = [type |-> "BRIXEL_READY", payload |-> [version |-> "1.0.0"]]
    /\ last.op = "mount" =>
          /\ sent = <<[type |-> "BRIXEL_READY", payload |-> [version |-> "1.0.0"]]>>
          /\ status = "initializing"
          /\ runId = Null
          /\ inputs = NullObj
          /\ context = NullObj
          /\ renderMode = Null

\* a run identity is known and a signal addressed by it follows READY
C9_Witness ==
    /\ Len(sent) >= 2
    /\ sent[2].type \in {"BRIXEL_RESIZE", "BRIXEL_LOG", "BRIXEL_COMPLETE", "BRIXEL_CANCEL"}

\* C10: an INIT received in any status replaces run identity, inputs (not
\* merged), context and render mode by the payload's, resets the completion
\* guard, sets status ready and posts nothing.
C10_InitReplaces ==
    [][MessageIs(last', "INIT") =>
          /\ runId' = last'.arg.payload.runId
          /\ inputs' = last'.arg.payload.inputs
          /\ context' = last'.arg.payload.context
          /\ renderMode' = last'.arg.payload.renderMode
          /\ hasCompleted' = FALSE
          /\ status' = "ready"
          /\ sent' = sent]_vars

\* an INIT with inputs {a: 2} received after a run with inputs holding key b
\* has completed
C10_Witness ==
    /\ MessageIs(last, "INIT")
    /\ EverTerminal
    /\ inputs = [a |-> 2]
    /\ status = "ready"

\* C11: an UPDATE_INPUTS received while inputs exist sets them to the shallow
\* merge of the current inputs and the payload's (payload keys win, the other
\* keys keep their value); received while inputs are null it adopts the
\* payload's inputs; either way status, run identity, context, render mode
\* and completion guard keep their value and onInputsUpdate is invoked with
\* the payload's inputs.
C11_UpdateInputsMerges ==
    [][MessageIs(last', "UPDATE_INPUTS") =>
          LET given == last'.arg.payload.inputs IN
          /\ inputs # NullObj =>
                /\ DOMAIN inputs' = (DOMAIN inputs) \cup (DOMAIN given)
                /\ \A k \in DOMAIN given : inputs'[k] = given[k]
                /\ \A k \in (DOMAIN inputs) \ (DOMAIN given) : inputs'[k] = inputs[k]
          /\ inputs = NullObj => inputs' = given
          /\ UNCHANGED <<status, runId, context, renderMode, hasCompleted>>
          /\ last'.callback = "onInputsUpdate"
          /\ last'.args = <<given>>]_vars

\* inputs {a: 1, b: 1} merged with {b: 2}
C11_Witness ==
    /\ MessageIs(last, "UPDATE_INPUTS")
    /\ inputs = [a |-> 1, b |-> 2]
    /\ last.args = <<[b |-> 2]>>

\* C12: an UPDATE_THEME (UPDATE_LOCALE) received while a context exists sets
\* the context's theme (locale) to the payload's and leaves every other field
\* of the context as it was; received while the context is null it leaves it
\* null; either way status, run identity, inputs and completion guard keep
\* their value.
C12_ThemeLocalePatch ==
    [][/\ MessageIs(last', "UPDATE_THEME") =>
            /\ context # NullObj =>
                  /\ DOMAIN context' = DOMAIN context
                  /\ context'.theme = last'.arg.payload.theme
                  /\ \A k \in (DOMAIN context) \ {"theme"} : context'[k] = context[k]
            /\ context = NullObj => context' = NullObj
            /\ UNCHANGED <<status, runId, inputs, hasCompleted>>
       /\ MessageIs(last', "UPDATE_LOCALE") =>
            /\ context # NullObj =>
                  /\ DOMAIN context' = DOMAIN context
                  /\ context'.locale = last'.arg.payload.locale
                  /\ \A k \in (DOMAIN context) \ {"locale"} : context'[k] = context[k]
            /\ context = NullObj => context' = NullObj
            /\ UNCHANGED <<status, runId, inputs, hasCompleted>>]_vars

\* the context of run r1, light and en at INIT, after both updates
C12_Witness ==
    /\ MessageIs(last, "UPDATE_LOCALE")
    /\ context # NullObj
    /\ context.organizationId = "org1"
    /\ context.apiToken = "tok1"
    /\ context.theme = "dark"
    /\ context.locale = "fr"

ErrorOf(r) == IF "error" \in DOMAIN r THEN r.error ELSE r.data

\* C14: status is never error, whatever messages are received and whatever
\* calls of complete, cancel, setHeight, log, executeTask, uploadFile and
\* getFileContent are made, failed ones included.
C14_NeverError == status # "error"

\* a bound executeTask that failed on the network in a run that is ready
C14_Witness ==
    /\ last.op = "executeTask"
    /\ last.arg.returned.success = Bool(FALSE)
    /\ ErrorOf(last.arg.returned).code = Str(<<"NETWORK_ERROR">>)
    /\ status = "ready"

\* C15: executeTask with an empty or absent organizationId returns a failure
\* of code MISSING_ORGANIZATION_ID, whatever the taskId; with an
\* organizationId and an empty or absent taskId, a failure of code
\* MISSING_TASK_ID; in both cases it has made no request.
C15_ExecutePreconditions ==
    (call.op = "executeTask" /\ pc # "called") =>
        /\ call.params.organizationId \in {Null, ""} =>
              /\ pc = "done"
              /\ result.success = Bool(FALSE)
              /\ ErrorOf(result).code = Str(<<"MISSING_ORGANIZATION_ID">>)
              /\ requests = <<>>
        /\ (call.params.organizationId \notin {Null, ""}
              /\ call.params.taskId \in {Null, ""}) =>
              /\ pc = "done"
              /\ result.success = Bool(FALSE)
              /\ ErrorOf(result).code = Str(<<"MISSING_TASK_ID">>)
              /\ requests = <<>>

\* executeTask returned for a call that lacks both identifiers
C15_Witness ==
    /\ call.op = "executeTask"
    /\ pc = "done"
    /\ call.params.organizationId = ""
    /\ call.params.taskId = Null
    /\ ErrorOf(result).code = Str(<<"MISSING_ORGANIZATION_ID">>)

\* C16: uploadFile without a file returns {success: false, error: {code:
\* "MISSING_FILE"}} and getFileContent without a file identifier returns
\* {success: false, error: {code: "MISSING_FILE_ID"}}; neither has built or
\* sent a request.
C16_FilePreconditions ==
    /\ (call.op = "uploadFile" /\ pc # "called" /\ call.params.file = Null) =>
          /\ pc = "done"
          /\ result.success = Bool(FALSE)
          /\ "error" \in DOMAIN result
          /\ result.error.code = Str(<<"MISSING_FILE">>)
          /\ requests = <<>>
    /\ (call.op = "getFileContent" /\ pc # "called"
          /\ call.params.brixelFileId \in {Null, ""}) =>
          /\ pc = "done"
          /\ result.success = Bool(FALSE)
          /\ "error" \in DOMAIN result
          /\ result.error.code = Str(<<"MISSING_FILE_ID">>)
          /\ requests = <<>>

\* uploadFile returned for a call without a file
C16_Witness ==
    /\ call.op = "uploadFile"
    /\ pc = "done"
    /\ call.params.file = Null
    /\ call.params.apiToken = "tok1"
    /\ result.error.code = Str(<<"MISSING_FILE">>)

\* the parsed body of the response the call received
RawBody == ParseJsonOrText(response.text)

\* a call that has returned what it made of a 2xx response
Answered2xx(op) ==
    /\ call.op = op
    /\ pc = "done"
    /\ caught = NotThrown
    /\ response # NoResponse
    /\ Ok(response)

\* C17: every result of executeTask, uploadFile and getFileContent is
\* {success: true, data} or {success: false, error: {code, message,
\* details?}}, the error of a failure being under the key error for all
\* three.
C17_UniformEnvelope ==
    pc = "done" =>
        \/ /\ result.success = Bool(TRUE)
           /\ "error" \notin DOMAIN result
        \/ /\ result.success = Bool(FALSE)
           /\ "error" \in DOMAIN result
           /\ "data" \notin DOMAIN result
           /\ {"code", "message"} \subseteq DOMAIN result.error

\* C18: whatever is thrown while the request is built and sent or the
\* response is read, the call returns a failure whose error has code
\* NETWORK_ERROR, the message of the thrown Error ("Unknown error occurred"
\* when the thrown value is not an Error) and the thrown value as details;
\* every result has a boolean success; and every call returns.
C18_FaultsNormalized ==
    /\ [](pc = "done" =>
            /\ result.success \in {Bool(TRUE), Bool(FALSE)}
            /\ caught # NotThrown =>
                  /\ result.success = Bool(FALSE)
                  /\ ErrorOf(result).code = Str(<<"NETWORK_ERROR">>)
                  /\ ErrorOf(result).message =
                        (IF caught.jsType = "Error"
                         THEN caught.message
                         ELSE Str(<<"Unknown error occurred">>))
                  /\ ErrorOf(result).details = caught)
    /\ <>(pc = "done")

\* getFileContent returned after the read of the body threw an Error
C18_Witness ==
    /\ call.op = "getFileContent"
    /\ pc = "done"
    /\ response # NoResponse
    /\ caught = ErrorValue("Failed to fetch")
    /\ result.error.message = Str(<<"Failed to fetch">>)

\* C19: executeTask, for a 2xx response whose body has success false,
\* returns a failure of code TASK_EXECUTION_FAILED whose message is the
\* body's error when that is a string with something else than white space
\* in it, "Task execution failed" otherwise, and whose details are the
\* payload; a result key in the body changes nothing.
C19_ExplicitFailure ==
    (Answered2xx("executeTask") /\ Get(RawBody, "success") = Bool(FALSE)) =>
        /\ result.success = Bool(FALSE)
        /\ ErrorOf(result).code = Str(<<"TASK_EXECUTION_FAILED">>)
        /\ ErrorOf(result).message =
              (IF /\ Get(RawBody, "error").jsType = "string"
                  /\ \E i \in DOMAIN RawBody.error.str :
                        RawBody.error.str[i] \notin Whitespace
               THEN RawBody.error
               ELSE Str(<<"Task execution failed">>))
        /\ ErrorOf(result).details = DecodeBase64BytesPayloads(RawBody)

\* C20: executeTask, for a 2xx response whose decoded body is not an
\* explicit failure, returns a success whose data is the value of the body's
\* result key when the body is an object that has one, the whole decoded
\* body otherwise, and is absent when the body is empty.
C20_SuccessData ==
    LET decoded == DecodeBase64BytesPayloads(RawBody) IN
    (Answered2xx("executeTask") /\ Get(decoded, "success") # Bool(FALSE)) =>
        /\ result.success = Bool(TRUE)
        /\ "error" \notin DOMAIN result
        /\ response.text = EmptyText => result.data = Undefined
        /\ HasKey(decoded, "result") => result.data = decoded.result
        /\ (~HasKey(decoded, "result") /\ decoded # JsNull) => result.data = decoded
        /\ decoded = JsNull => result.data = Undefined

\* the result key of the body, a bytes node of "hello", returned decoded
\* and alone
C20_Witness ==
    /\ Answered2xx("executeTask")
    /\ HasKey(RawBody, "result")
    /\ result.success = Bool(TRUE)
    /\ result.data = Uint8Array(<<104, 101, 108, 108, 111>>)

\* a call of executeTask that has returned what it made of a body it read
AnsweredExecute ==
    /\ call.op = "executeTask"
    /\ pc = "done"
    /\ caught = NotThrown
    /\ response # NoResponse

\* out is raw with every bytes-shaped node replaced by the bytes of its
\* content and every other value in its place
RECURSIVE Replaced(_, _)
Replaced(raw, out) ==
    IF IsBase64BytesPayload(raw)
    THEN /\ out.jsType = "Uint8Array"
         /\ out.bytes = Atob(SelectSeq(raw.content.str, NotWhitespace))
    ELSE IF raw.jsType = "array"
    THEN /\ out.jsType = "array"
         /\ DOMAIN out.items = DOMAIN raw.items
         /\ \A i \in DOMAIN raw.items : Replaced(raw.items[i], out.items[i])
    ELSE IF raw.jsType = "object"
    THEN /\ DOMAIN out = DOMAIN raw
         /\ out.jsType = "object"
         /\ \A key \in DOMAIN raw \ {"jsType"} : Replaced(raw[key], out[key])
    ELSE out = raw

\* C21: in the body of an execute response every bytes-shaped node, at any
\* depth of objects and arrays, is replaced by the bytes decoded from its
\* content and every other value is left in place: so is the decoded body,
\* and so is the data of the success made of the body's result key.
C21_BytesDecoded ==
    AnsweredExecute =>
        /\ Replaced(RawBody, DecodeBase64BytesPayloads(RawBody))
        /\ (Ok(response) /\ HasKey(RawBody, "result")
              /\ Get(RawBody, "success") # Bool(FALSE)) =>
                 Replaced(RawBody.result, result.data)

\* value has a bytes-shaped node
RECURSIVE HasBytesNode(_)
HasBytesNode(value) ==
    \/ IsBase64BytesPayload(value)
    \/ value.jsType = "array"
          /\ \E i \in DOMAIN value.items : HasBytesNode(value.items[i])
    \/ value.jsType = "object"
          /\ \E key \in DOMAIN value \ {"jsType"} : HasBytesNode(value[key])

\* C22: a body without a bytes-shaped node comes out of the decoding as it
\* went in, keys, order of elements and leaves: the non-2xx failure has it as
\* its details and the success as its data.
C22_DecoderNoOp ==
    (AnsweredExecute /\ ~HasBytesNode(RawBody)) =>
        /\ DecodeBase64BytesPayloads(RawBody) = RawBody
        /\ (~Ok(response) /\ Falsy(Get(RawBody, "details"))) =>
              ErrorOf(result).details = RawBody
        /\ (Ok(response) /\ RawBody.jsType = "object"
              /\ ~IsActionExecutePayload(RawBody)) => result.data = RawBody

\* C23: getFileContent returns {success: true, notModified: true}, without
\* data and without error, for a response of status 304, which it tests
\* before it maps a non-2xx status to a failure; no other outcome of any
\* client has notModified.
C23_NotModified ==
    pc = "done" =>
        /\ (call.op = "getFileContent" /\ response # NoResponse
              /\ response.status = 304) =>
                 /\ result.success = Bool(TRUE)
                 /\ result.notModified = Bool(TRUE)
                 /\ DOMAIN result = {"jsType", "success", "notModified"}
        /\ "notModified" \in DOMAIN result =>
              /\ call.op = "getFileContent"
              /\ response # NoResponse
              /\ response.status = 304

\* a conditional getFileContent answered 304 with an error body
C23_Witness ==
    /\ call.op = "getFileContent"
    /\ pc = "done"
    /\ call.params.ifNoneMatch = "etag1"
    /\ response # NoResponse
    /\ response.status = 304
    /\ Get(RawBody, "code") = Str(<<"E_CUSTOM">>)
    /\ result = NotModified

\* a call that has returned what it made of a response that is neither 2xx
\* nor, for getFileContent, 304
AnsweredNon2xx ==
    /\ pc = "done"
    /\ caught = NotThrown
    /\ response # NoResponse
    /\ ~Ok(response)
    /\ ~(call.op = "getFileContent" /\ response.status = 304)

\* the body as the client hands it to toHttpError
ErrorBody == IF call.op = "executeTask" THEN DecodeBase64BytesPayloads(RawBody) ELSE RawBody

\* C24 as stated: the failure of a non-2xx response takes code, message and
\* details from the body's fields of these names whenever the body has them,
\* and otherwise HTTP_<status>, "Request failed with status <status>" and
\* the whole body.
C24_HttpFailurePresent ==
    AnsweredNon2xx =>
        /\ result.success = Bool(FALSE)
        /\ ErrorOf(result).code =
              (IF HasKey(ErrorBody, "code") THEN ErrorBody.code
               ELSE Str(<<"HTTP_" \o ToString(response.status)>>))
        /\ ErrorOf(result).message =
              (IF HasKey(ErrorBody, "message") THEN ErrorBody.message
               ELSE Str(<<"Request failed with status " \o ToString(response.status)>>))
        /\ ErrorOf(result).details =
              (IF HasKey(ErrorBody, "details") THEN ErrorBody.details ELSE ErrorBody)

\* the body has the field and its value is not one that JavaScript takes for
\* false (an empty string, 0, false, null)
Truthy(body, key) ==
    /\ HasKey(body, key)
    /\ body[key] \notin {Str(<<>>), Num(0), Bool(FALSE), JsNull}

\* C24, amended: the failure of a non-2xx response takes code, message and
\* details from the body's fields of these names when the body has them with
\* a value other than an empty string, 0, false or null, and otherwise
\* HTTP_<status>, "Request failed with status <status>" and the whole body.
C24_HttpFailure ==
    AnsweredNon2xx =>
        /\ result.success = Bool(FALSE)
        /\ ErrorOf(result).code =
              (IF Truthy(ErrorBody, "code") THEN ErrorBody.code
               ELSE Str(<<"HTTP_" \o ToString(response.status)>>))
        /\ ErrorOf(result).message =
              (IF Truthy(ErrorBody, "message") THEN ErrorBody.message
               ELSE Str(<<"Request failed with status " \o ToString(response.status)>>))
        /\ ErrorOf(result).details =
              (IF Truthy(ErrorBody, "details") THEN ErrorBody.details ELSE ErrorBody)

\* uploadFile answered 500 with a body that has its own details and an
\* empty message
C24_Witness ==
    /\ call.op = "uploadFile"
    /\ AnsweredNon2xx
    /\ response.status = 500
    /\ RawBody.jsType = "object"
    /\ Get(RawBody, "message") = Str(<<>>)
    /\ result.error.code = Str(<<"HTTP_500">>)
    /\ result.error.message = Str(<<"Request failed with status 500">>)
    /\ result.error.details = Str(<<"d">>)

\* a call made through a client bound to the context of a run or to none
Bound(op) == call.op = op /\ "caller" \in DOMAIN call /\ pc # "called"

\* the header of this name among the headers of a request, Null without one
HeaderOf(request, name) ==
    IF \E h \in request.headers : h.name = name
    THEN (CHOOSE h \in request.headers : h.name = name).value
    ELSE Null

\* "Bearer <token>", Null without a token
Bearer(token) == IF token \in {Null, ""} THEN Null ELSE "Bearer " \o token

\* the value of a header made of a field, Null when the field is absent
Sent(value) == IF value \in {Null, ""} THEN Null ELSE value

\* the caller's params without the fields a bound client is to take from
\* the context
Sealed(caller, fields) ==
    [key \in DOMAIN caller |-> IF key \in fields THEN Null ELSE caller[key]]

\* C25: a bound executeTask sends the apiToken, the conversationId and the
\* apiBaseUrl of the context it was bound to, whatever the caller passes
\* under these names: its requests are those of the same call without them.
\* The organizationId is the caller's when the caller gives one, the
\* context's otherwise; with neither, the call returns the failure
\* MISSING_ORGANIZATION_ID.
C25_BoundExecuteAuth ==
    Bound("executeTask") =>
        LET auth == ContextAuth(call.session)
            sealed == Sealed(call.caller, {"apiToken", "conversationId", "apiBaseUrl"})
        IN  /\ requests = ExecuteTaskBegin(CreateExecuteTask(auth, sealed),
                                           call.window).fetched
            /\ \A i \in DOMAIN requests :
                  /\ HeaderOf(requests[i], "Authorization") = Bearer(auth.apiToken)
                  /\ HeaderOf(requests[i], "x-conversation-id") = Sent(auth.conversationId)
                  /\ requests[i].url[1] = ResolveApiBaseUrl(auth.apiBaseUrl, call.window)
                  /\ requests[i].url[3] =
                        EncodeURIComponent(IF call.caller.organizationId # Null
                                           THEN call.caller.organizationId
                                           ELSE auth.organizationId)
            /\ (call.caller.organizationId = Null /\ auth.organizationId = Null) =>
                  /\ requests = <<>>
                  /\ pc = "done"
                  /\ result.success = Bool(FALSE)
                  /\ ErrorOf(result).code = Str(<<"MISSING_ORGANIZATION_ID">>)

\* a bound executeTask called with a token, a conversation and a base URL
\* of the caller's has sent its request with those of the run r1
C25_Witness ==
    /\ Bound("executeTask")
    /\ call.session = "r1"
    /\ call.caller.apiToken = "evil"
    /\ call.caller.conversationId = "conv2"
    /\ call.caller.apiBaseUrl = "https://evil"
    /\ call.caller.organizationId = "org/1"
    /\ Len(requests) = 1
    /\ HeaderOf(requests[1], "Authorization") = "Bearer tok1"
    /\ requests[1].url[1] = "https://api"
    /\ requests[1].url[3] = "org%2F1"

\* the caller's value of a field when the caller gives one, the context's
\* otherwise
Explicit(caller, auth, key) == IF caller[key] # Null THEN caller[key] ELSE auth[key]

\* what C26 says of uploadFile, with caller and context of the call
BoundUploadAuth ==
    Bound("uploadFile") =>
        LET auth == ContextAuth(call.session)
            sealed == Sealed(call.caller, {"apiToken", "apiBaseUrl"})
        IN  /\ requests = UploadFileBegin(CreateUploadFile(auth, sealed),
                                          call.window).fetched
            /\ \A i \in DOMAIN requests :
                  /\ HeaderOf(requests[i], "Authorization") = Bearer(auth.apiToken)
                  /\ requests[i].url[1] = ResolveApiBaseUrl(auth.apiBaseUrl, call.window)
                  /\ HeaderOf(requests[i], "X-Organization-Id") =
                        Sent(Explicit(call.caller, auth, "organizationId"))

\* C26 as stated: the bound uploadFile and getFileContent send the apiToken
\* and the apiBaseUrl of the context, and getFileContent its conversationId
\* too, whatever the caller passes under these names; the organizationId is
\* the caller's when given, the context's otherwise.
C26_BoundFileAuthSealed ==
    /\ BoundUploadAuth
    /\ Bound("getFileContent") =>
          LET auth == ContextAuth(call.session)
              sealed == Sealed(call.caller, {"apiToken", "apiBaseUrl", "conversationId"})
          IN  /\ requests = GetFileContentBegin(CreateGetFileContent(auth, sealed),
                                                call.window).fetched
              /\ \A i \in DOMAIN requests :
                    /\ HeaderOf(requests[i], "Authorization") = Bearer(auth.apiToken)
                    /\ requests[i].url[1] = ResolveApiBaseUrl(auth.apiBaseUrl, call.window)
                    /\ HeaderOf(requests[i], "X-Conversation-Id") =
                          Sent(auth.conversationId)
                    /\ HeaderOf(requests[i], "X-Organization-Id") =
                          Sent(Explicit(call.caller, auth, "organizationId"))

\* C26, amended: the bound uploadFile and getFileContent send the apiToken
\* and the apiBaseUrl of the context whatever the caller passes under these
\* names; the organizationId and, for getFileContent, the conversationId are
\* the caller's when given, the context's otherwise.
C26_BoundFileAuth ==
    /\ BoundUploadAuth
    /\ Bound("getFileContent") =>
          LET auth == ContextAuth(call.session)
              sealed == Sealed(call.caller, {"apiToken", "apiBaseUrl"})
          IN  /\ requests = GetFileContentBegin(CreateGetFileContent(auth, sealed),
                                                call.window).fetched
              /\ \A i \in DOMAIN requests :
                    /\ HeaderOf(requests[i], "Authorization") = Bearer(auth.apiToken)
                    /\ requests[i].url[1] = ResolveApiBaseUrl(auth.apiBaseUrl, call.window)
                    /\ HeaderOf(requests[i], "X-Conversation-Id") =
                          Sent(Explicit(call.caller, auth, "conversationId"))
                    /\ HeaderOf(requests[i], "X-Organization-Id") =
                          Sent(Explicit(call.caller, auth, "organizationId"))

\* a bound getFileContent called with a token and a conversation of the
\* caller's has sent the token of the run r1 and the caller's conversation
C26_Witness ==
    /\ Bound("getFileContent")
    /\ call.session = "r1"
    /\ call.caller.apiToken = "evil"
    /\ call.caller.apiBaseUrl = "https://evil"
    /\ call.caller.conversationId = "conv2"
    /\ Len(requests) = 1
    /\ HeaderOf(requests[1], "Authorization") = "Bearer tok1"
    /\ HeaderOf(requests[1], "X-Conversation-Id") = "conv2"
    /\ requests[1].url[1] = "https://api"

\* C27: every request of uploadFile, called directly or through the bound
\* client, has a form body whose fields are file, with the file of the call,
\* and visibility, with the value "user", whatever the params hold.
C27_VisibilityUser ==
    call.op = "uploadFile" =>
        \A i \in DOMAIN requests :
            /\ requests[i].method = "POST"
            /\ requests[i].body.formData =
                  <<Header("file", call.params.file), Header("visibility", "user")>>

\* a bound uploadFile called with visibility "public" has sent its request
C27_Witness ==
    /\ Bound("uploadFile")
    /\ call.caller.visibility = "public"
    /\ Len(requests) = 1
    /\ requests[1].body.formData[2] = Header("visibility", "user")

\* C28: the context changes only when an INIT is handled, which replaces it,
\* and when an UPDATE_THEME or UPDATE_LOCALE is handled, which patches the
\* one field; a call of executeTask, uploadFile or getFileContent, succeeded
\* or failed, leaves every field of it as it was, and so do complete, cancel,
\* setHeight, log, UPDATE_INPUTS and DESTROY.
C28_ContextSingleWriter ==
    [][/\ context' # context =>
             \/ MessageIs(last', "INIT") /\ context' = last'.arg.payload.context
             \/ /\ MessageIs(last', "UPDATE_THEME")
                /\ context' = [context EXCEPT !.theme = last'.arg.payload.theme]
             \/ /\ MessageIs(last', "UPDATE_LOCALE")
                /\ context' = [context EXCEPT !.locale = last'.arg.payload.locale]
       /\ (\/ last'.op \in {"executeTask", "uploadFile", "getFileContent",
                             "complete", "cancel", "setHeight", "log", "render"}
           \/ MessageIs(last', "UPDATE_INPUTS")
           \/ MessageIs(last', "DESTROY")) => context' = context]_vars

\* a bound uploadFile has failed in run r1, whose context had its theme
\* patched, and the context is still that one
C28_Witness ==
    /\ last.op = "uploadFile"
    /\ last.arg.returned.success = Bool(FALSE)
    /\ last.arg.params.apiToken = "tok1"
    /\ context = [BrixelContext("r1") EXCEPT !.theme = "dark"]

\* the preconditions of the call hold
Validates ==
    CASE call.op = "executeTask" -> ExecuteTaskValidate(call.params) = Pending
      [] call.op = "uploadFile" -> UploadFileValidate(call.params) = Pending
      [] call.op = "getFileContent" -> GetFileContentValidate(call.params) = Pending

\* C30 as stated: a call hands exactly one request to fetch when its
\* preconditions hold and none when they do not, and never another one,
\* whatever the response or the failure of the network.
C30_OneRequestIfValid ==
    /\ pc = "called" => requests = <<>>
    /\ pc # "called" => Len(requests) = (IF Validates THEN 1 ELSE 0)

\* the body of the request can be built: JSON.stringify of the inputs of
\* executeTask does not throw
Serializes ==
    call.op = "executeTask" => ~JsonStringify([inputs |-> call.params.inputs]).threw

\* C30, amended: a call hands exactly one request to fetch when its
\* preconditions hold and its request can be built, and none otherwise; it
\* never hands it another one, whatever the response or the failure of the
\* network.
C30_AtMostOneRequest ==
    /\ pc = "called" => requests = <<>>
    /\ pc # "called" => Len(requests) = (IF Validates /\ Serializes THEN 1 ELSE 0)

\* executeTask has returned the failure of a 404 after its one request
C30_Witness ==
    /\ call.op = "executeTask"
    /\ pc = "done"
    /\ Len(requests) = 1
    /\ response # NoResponse
    /\ response.status = 404
    /\ result.success = Bool(FALSE)

\* what a call through the hook returns for the response it received
OwnResult(flight) ==
    Returned(flight.call.op, flight.call.params, flight.call.window,
             Responded(flight.response))

\* C29: a complete(), a cancel(), a DESTROY or a new INIT while calls of
\* executeTask, uploadFile or getFileContent are under way leaves them as
\* they are, and they can still resolve; a call that has resolved returns
\* what its own params and its own response determine, whatever the other
\* call received; a step of one call changes nothing of the other, and no
\* step of a call changes status, run identity, inputs, context or the
\* completion guard.
C29_FlightsUntouched ==
    /\ [](\A slot \in Slots :
            /\ flights[slot].pc = "done" =>
                  flights[slot].result = OwnResult(flights[slot])
            /\ flights[slot].pc \in {"fetching", "reading"} =>
                  ENABLED FlightSettles(slot))
    /\ [][/\ flights' # flights =>
               UNCHANGED <<status, runId, inputs, context, renderMode, hasCompleted, sent>>
          /\ last' # last => flights' = flights
          /\ \A slot \in Slots :
                /\ flights[slot].pc # "idle" =>
                      /\ flights'[slot].call = flights[slot].call
                      /\ flights'[slot].requests = flights[slot].requests
                      /\ flights'[slot].pc # "idle"
                /\ flights'[slot] # flights[slot] =>
                      \A other \in Slots \ {slot} : flights'[other] = flights[other]]_vars

\* two executeTask calls bound in runs r1 and r2 have resolved, each with
\* its own response, after the second run was completed
C29_Witness ==
    /\ runId = "r2"
    /\ status = "completed"
    /\ hasCompleted
    /\ flights["a"].pc = "done"
    /\ flights["a"].call.params.apiToken = "tok1"
    /\ flights["a"].response.status = 200
    /\ flights["a"].result.success = Bool(TRUE)
    /\ flights["b"].pc = "done"
    /\ flights["b"].call.op = "executeTask"
    /\ flights["b"].call.params.apiToken = "tok2"
    /\ flights["b"].response.status = 404
    /\ flights["b"].result.success = Bool(FALSE)

\* C31: every COMPLETE or CANCEL posted carries the run identity of the most
\* recently received INIT, also when complete() or cancel() is called through
\* a callback created before that INIT's state update was rendered; no such
\* call sets the completion guard of the newer run while reporting the older.
C31_TerminalOfCurrentRun ==
    [][last'.op \in {"complete", "cancel"} =>
          /\ sent' # sent => sent'[Len(sent')].payload.runId = runId
          /\ (hasCompleted' /\ ~hasCompleted) =>
                sent'[Len(sent')].payload.runId = runId]_vars

\* C32: READY is posted exactly once per child instance: after the initial
\* READY no received message, state change or re-render, a re-render with a
\* new identity of onInputsUpdate, onDestroy, debug or targetOrigin included,
\* posts another READY.
C32_ReadyOnce ==
    /\ sent[1].type = "BRIXEL_READY"
    /\ \A i \in DOMAIN sent : sent[i].type = "BRIXEL_READY" => i = 1

\* C33: in every reachable state the completion guard is set if and only if
\* status is completed or cancelled, status is initializing if and only if
\* the run identity is null, and context and render mode are null exactly
\* when the run identity is null.
C33_StateConsistent ==
    /\ hasCompleted <=> status \in {"completed", "cancelled"}
    /\ status = "initializing" <=> runId = Null
    /\ context = NullObj <=> runId = Null
    /\ renderMode = Null <=> runId = Null

\* a second run, initialized after the first one's terminal signal
C33_Witness ==
    /\ EverTerminal
    /\ MessageIs(last, "INIT")
    /\ status = "ready"
    /\ ~hasCompleted
    /\ runId = "r2"
    /\ context # NullObj
    /\ renderMode = "display"

\* what the listener's case for a message of this name does with a payload
Handles(name, p) ==
    CASE name = "UPDATE_INPUTS" -> HandleUpdateInputs(p)
      [] name = "DESTROY" -> HandleDestroy(p)
      [] name = "UPDATE_THEME" -> HandleUpdateTheme(p)
      [] name = "UPDATE_LOCALE" -> HandleUpdateLocale(p)

\* C34: the effect of UPDATE_INPUTS, UPDATE_THEME, UPDATE_LOCALE and DESTROY
\* does not depend on the runId of their payload: the step taken for such a
\* message is also the step of the same message with any other runId, that
\* of the current run or not (same state reached, same messages posted,
\* same callback invoked with the same arguments).
C34_PayloadRunIdUnread ==
    [][\A name \in HostToChildTypes \ {"INIT"} :
          MessageIs(last', name) =>
             \A rid \in RunIds \cup {"r0"} :
                LET other == [last'.arg.payload EXCEPT !.runId = rid] IN
                /\ Handles(name, other)
                /\ sent' = sent
                /\ last'.args = IF name = "UPDATE_INPUTS" THEN <<other.inputs>> ELSE <<>>
                /\ last'.callback = CASE name = "UPDATE_INPUTS" -> "onInputsUpdate"
                                       [] name = "DESTROY" -> "onDestroy"
                                       [] OTHER -> "none"]_vars

\* an UPDATE_THEME whose payload names run r1, handled in run r2
C34_Witness ==
    /\ MessageIs(last, "UPDATE_THEME")
    /\ last.arg.payload.runId = "r1"
    /\ runId = "r2"
    /\ context # NullObj
    /\ context.theme = "dark"
    /\ context.locale = "fr"

\* C35: executeTask, for every 2xx response whose JSON body is an object
\* with success false, returns a failure and never a success, whatever
\* other keys the body has, those of a bytes-shaped node included.
C35_FailureMarkerKept ==
    (Answered2xx("executeTask") /\ IsRecord(RawBody)
       /\ Get(RawBody, "success") = Bool(FALSE)) =>
          result.success = Bool(FALSE)

\* context?.key
Current(key) == IF context = NullObj THEN Null ELSE context[key]

\* C36: every call of the bound executeTask, uploadFile and getFileContent
\* is made with the organizationId, apiToken, conversationId and apiBaseUrl
\* of the context of the most recently received INIT, never with those of
\* an earlier run; UPDATE_THEME and UPDATE_LOCALE leave these fields as they
\* are; before any INIT the bound executeTask, called without organizationId,
\* returns MISSING_ORGANIZATION_ID.
C36_ClientsOfCurrentRun ==
    [][/\ last'.op \in {"executeTask", "uploadFile", "getFileContent"} =>
            LET used == last'.arg.params IN
            /\ used.apiToken = Current("apiToken")
            /\ used.apiBaseUrl = Current("apiBaseUrl")
            /\ last'.op # "uploadFile" => used.conversationId = Current("conversationId")
            /\ used.organizationId = IF context = NullObj /\ last'.op = "executeTask"
                                        THEN ""
                                        ELSE Current("organizationId")
       /\ (MessageIs(last', "UPDATE_THEME") \/ MessageIs(last', "UPDATE_LOCALE")) =>
            \A key \in {"organizationId", "apiToken", "conversationId", "apiBaseUrl"} :
               context # NullObj => context'[key] = context[key]
       /\ (last'.op = "executeTask" /\ runId = Null) =>
            /\ last'.arg.returned.success = Bool(FALSE)
            /\ ErrorOf(last'.arg.returned).code = Str(<<"MISSING_ORGANIZATION_ID">>)]_vars

\* a bytes-shaped node whose content atob rejects
Undecodable(node) ==
    /\ IsBase64BytesPayload(node)
    /\ \E i \in DOMAIN node.content.str :
          /\ node.content.str[i] \notin Whitespace
          /\ node.content.str[i] \notin Base64Groups

RECURSIVE HasUndecodable(_)
HasUndecodable(value) ==
    \/ Undecodable(value)
    \/ value.jsType = "array"
          /\ \E i \in DOMAIN value.items : HasUndecodable(value.items[i])
    \/ value.jsType = "object" /\ ~IsBase64BytesPayload(value)
          /\ \E key \in DOMAIN value \ {"jsType"} : HasUndecodable(value[key])

\* out is raw with every undecodable node as it was, all its fields kept,
\* and every other bytes-shaped node replaced by its bytes
RECURSIVE KeptOrDecoded(_, _)
KeptOrDecoded(raw, out) ==
    IF Undecodable(raw)
    THEN out = raw
    ELSE IF IsBase64BytesPayload(raw)
    THEN out = Uint8Array(Atob(SelectSeq(raw.content.str, NotWhitespace)))
    ELSE IF raw.jsType = "array"
    THEN /\ out.jsType = "array"
         /\ DOMAIN out.items = DOMAIN raw.items
         /\ \A i \in DOMAIN raw.items : KeptOrDecoded(raw.items[i], out.items[i])
    ELSE IF raw.jsType = "object"
    THEN /\ DOMAIN out = DOMAIN raw
         /\ out.jsType = "object"
         /\ \A key \in DOMAIN raw \ {"jsType"} : KeptOrDecoded(raw[key], out[key])
    ELSE out = raw

\* C37: when the decoding of a bytes-shaped node of an execute response
\* fails, the node is left as it was and the other bytes-shaped nodes of
\* the body are decoded; the call returns what it returns for the status,
\* the success made of the body or the HTTP failure, and not NETWORK_ERROR.
C37_DecodeFailureLocal ==
    (AnsweredExecute /\ HasUndecodable(RawBody)) =>
        /\ KeptOrDecoded(RawBody, DecodeBase64BytesPayloads(RawBody))
        /\ Ok(response) =>
              /\ result.success = Bool(TRUE)
              /\ KeptOrDecoded(RawBody.result, result.data)
        /\ ~Ok(response) =>
              /\ result.success = Bool(FALSE)
              /\ ErrorOf(result).code = Str(<<"HTTP_404">>)
              /\ KeptOrDecoded(RawBody, ErrorOf(result).details)

\* the data of a success with an undecodable node between decoded ones
C37_Witness ==
    /\ AnsweredExecute
    /\ Ok(response)
    /\ result.success = Bool(TRUE)
    /\ HasKey(result.data, "first")
    /\ result.data.first = Uint8Array(<<104, 105>>)
    /\ result.data.second = BytesNode(<<"aGVs", "!!!!">>)
    /\ result.data.rest = Arr(<<BytesNode(<<"!!!!">>), Uint8Array(<<108, 111>>)>>)

\* C38: uploadFile decodes no binary payload: for a 2xx response its success
\* has the parsed body as data, as it was parsed, a bytes-shaped node staying
\* an object with its type, encoding and content; for an empty body, or a
\* body that is null, the data is absent.
C38_UploadBodyAsParsed ==
    Answered2xx("uploadFile") =>
        /\ result.success = Bool(TRUE)
        /\ "error" \notin DOMAIN result
        /\ RawBody # JsNull => result.data = RawBody
        /\ RawBody = JsNull => result.data = Undefined
        /\ response.text = EmptyText => result.data = Undefined

\* an upload answered 201 with a bytes-shaped node in its body
C38_Witness ==
    /\ Answered2xx("uploadFile")
    /\ response.status = 201
    /\ result.success = Bool(TRUE)
    /\ HasKey(result.data, "file")
    /\ result.data.file = BytesNode(<<"aGk=">>)
    /\ result.data.size = Num(2)

\* C39: isExecuteTaskError is true of a value executeTask returned if and
\* only if the value's success is false; it is true of a bare error object
\* with a string code and a string message, and false of null, of values
\* that are not objects and of success results.
C39_GuardMatchesFailure ==
    /\ (call.op = "executeTask" /\ pc = "done") =>
           (IsExecuteTaskError(result) <=> result.success = Bool(FALSE))
    /\ IsExecuteTaskError([jsType |-> "object", code |-> Str(<<"E_CUSTOM">>),
                           message |-> Str(<<"custom">>)])
    /\ \A value \in {JsNull, Undefined, Str(<<"ok">>), Num(1), Bool(FALSE)} :
           ~IsExecuteTaskError(value)
    /\ \A data \in {Undefined, Str(<<"r">>),
                      [jsType |-> "object", code |-> Str(<<"E_CUSTOM">>),
                       message |-> Str(<<"custom">>)]} :
           ~IsExecuteTaskError(ToExecuteTaskSuccess(data))

====
